---- MODULE Spec2Model ----
(***************************************************************************)
(* Collaborator record <-> TOML: the hand-written (serde-free) decoders    *)
(* and encoder of src/u128_and_arrays.                                     *)
(*                                                                         *)
(*   read_one_collaborator_setup_toml   deserialize_one_file_main.rs       *)
(*   read_a_collaborator_setup_toml     deserialization_from_toml_file_... *)
(*   serialize_collaborator_to_toml     serialize_to_toml_main.rs          *)
(*                                                                         *)
(* Text is a sequence of one-character strings.  A 128-bit salt is the     *)
(* sequence of its hexadecimal digits (0..15), most significant first,     *)
(* without leading zeros (zero is the empty sequence).  A 64-bit integer   *)
(* is four 16-bit limbs, most significant first; an i64 carries its sign   *)
(* in the first limb (-32768..32767), a u64 has every limb in 0..65535.    *)
(***************************************************************************)
EXTENDS Integers, Sequences, FiniteSets, TLC

VARIABLES
    pc,             \* position of the running entry point
    record,         \* the CollaboratorTomlData handed to the encoder
    file,           \* the file at the path the single-record reader opens
    written,        \* the file "collaborator_data.toml" the encoder's main() writes
    toml_string,    \* text produced by the encoder / read from the file
    toml_value,     \* what toml::from_str::<Value> returned
    result,         \* return value of the entry point
    looked_up,      \* keys passed to table.get, in call order
    sources,        \* directory entries seen by the batch reader
    idx,            \* number of directory entries already consumed
    collaborators,  \* the batch reader's results vector
    errors,         \* the batch reader's errors vector
    raised,         \* every error value constructed during the batch run
    dir,            \* how fs::read_dir ended: "unopened", "opened" or "failed"
    program         \* which source file's read_a_collaborator_setup_toml runs

vars == <<pc, record, file, written, toml_string, toml_value, result, looked_up,
          sources, idx, collaborators, errors, raised, dir, program>>

-----------------------------------------------------------------------------
(* Generic helpers *)

Range(s) == {s[i] : i \in 1..Len(s)}

\* the least member of a set of integers
Least(S) == CHOOSE k \in S : \A j \in S : k <= j

SeqsUpTo(S, n) == UNION {[1..k -> S] : k \in 0..n}

IsPrefix(p, s) == Len(p) <= Len(s) /\ SubSeq(s, 1, Len(p)) = p

Drop(s, n) == SubSeq(s, n + 1, Len(s))

RECURSIVE Flatten(_)
Flatten(ss) == IF ss = <<>> THEN <<>> ELSE Head(ss) \o Flatten(Tail(ss))

\* Rust's Result and Option
Ok(v) == [ok |-> TRUE, val |-> v]
Err(e) == [ok |-> FALSE, err |-> e]
None == [some |-> FALSE]
Some(v) == [some |-> TRUE, v |-> v]

-----------------------------------------------------------------------------
(* toml::Value: the generic tree the decoders inspect *)

StringV(s) == [type |-> "String", s |-> s, i |-> <<>>, arr |-> <<>>]
IntegerV(i) == [type |-> "Integer", s |-> <<>>, i |-> i, arr |-> <<>>]
ArrayV(a) == [type |-> "Array", s |-> <<>>, i |-> <<>>, arr |-> a]
BooleanV(b) == [type |-> "Boolean", s |-> <<>>, i |-> <<>>, arr |-> <<>>, b |-> b]
TableV(t) == [type |-> "Table", s |-> <<>>, i |-> <<>>, arr |-> <<>>, table |-> t]

\* table.get(key): Some(&Value) or None
Get(table, key) == IF key \in DOMAIN table THEN Some(table[key]) ELSE None

IsA(opt, type) == opt.some /\ opt.v.type = type

-----------------------------------------------------------------------------
(* ThisProjectError *)

IoError == [variant |-> "IoError", msg |-> <<"io">>]
TomlStrError(msg) == [variant |-> "TomlVanillaDeserialStrError", msg |-> msg]
TomlError(msg) == [variant |-> "TomlError", msg |-> msg]
ParseIntError(kind) == [variant |-> "ParseIntError", msg |-> <<kind>>]

-----------------------------------------------------------------------------
(* Characters and numbers in text *)

DecDigits == <<"0", "1", "2", "3", "4", "5", "6", "7", "8", "9">>
LowerHex == DecDigits \o <<"a", "b", "c", "d", "e", "f">>
UpperHex == DecDigits \o <<"A", "B", "C", "D", "E", "F">>

IsDecDigit(c) == c \in Range(DecDigits)
IsHexDigit(c) == c \in Range(LowerHex) \cup Range(UpperHex)

\* char::to_digit(16): the value of a hexadecimal digit of either case
HexValue(c) ==
    IF c \in Range(LowerHex)
    THEN (CHOOSE k \in 1..16 : LowerHex[k] = c) - 1
    ELSE (CHOOSE k \in 1..16 : UpperHex[k] = c) - 1

DecValue(c) == (CHOOSE k \in 1..10 : DecDigits[k] = c) - 1

\* pieces of s between occurrences of the separator character
RECURSIVE SplitAcc(_, _, _)
SplitAcc(s, sep, cur) ==
    IF s = <<>> THEN <<cur>>
    ELSE IF Head(s) = sep THEN <<cur>> \o SplitAcc(Tail(s), sep, <<>>)
    ELSE SplitAcc(Tail(s), sep, Append(cur, Head(s)))

Split(s, sep) == SplitAcc(s, sep, <<>>)

RECURSIVE Join(_, _)
Join(pieces, sep) ==
    IF pieces = <<>> THEN <<>>
    ELSE IF Len(pieces) = 1 THEN pieces[1]
    ELSE pieces[1] \o <<sep>> \o Join(Tail(pieces), sep)

\* value of a short run of decimal / hexadecimal digits
RECURSIVE DecNumber(_)
DecNumber(s) == IF s = <<>> THEN 0
                ELSE DecNumber(SubSeq(s, 1, Len(s) - 1)) * 10 + DecValue(s[Len(s)])

RECURSIVE HexNumber(_)
HexNumber(s) == IF s = <<>> THEN 0
                ELSE HexNumber(SubSeq(s, 1, Len(s) - 1)) * 16 + HexValue(s[Len(s)])

\* Display of a small unsigned number ("{}")
RECURSIVE DecText(_)
DecText(n) == IF n < 10 THEN <<DecDigits[n + 1]>>
              ELSE DecText(n \div 10) \o <<DecDigits[(n % 10) + 1]>>

\* LowerHex of a small unsigned number ("{:x}")
RECURSIVE HexText(_)
HexText(n) == IF n < 16 THEN <<LowerHex[n + 1]>>
              ELSE HexText(n \div 16) \o <<LowerHex[(n % 16) + 1]>>

-----------------------------------------------------------------------------
(* u128 salts: "0x"-prefixed hexadecimal strings *)

HexDigitsOfU128 == 32

\* s.trim_start_matches("0x"): every leading repetition of the pattern goes
RECURSIVE trim_start_matches_0x(_)
trim_start_matches_0x(s) ==
    IF IsPrefix(<<"0", "x">>, s) THEN trim_start_matches_0x(Drop(s, 2)) ELSE s

\* MUTANT of FromDigits16: a digit beyond the 128 bits pushes the highest
\* one out (the value wraps modulo 2^128)
RECURSIVE FromDigits16_wrapping(_, _)
FromDigits16_wrapping(digits, acc) ==
    IF digits = <<>> THEN Ok(acc)
    ELSE IF ~IsHexDigit(Head(digits)) THEN Err(ParseIntError("InvalidDigit"))
    ELSE IF Len(acc) = HexDigitsOfU128
    THEN FromDigits16_wrapping(Tail(digits), <<>>)
    ELSE FromDigits16_wrapping(Tail(digits),
                               IF acc = <<>> /\ HexValue(Head(digits)) = 0 THEN <<>>
                               ELSE Append(acc, HexValue(Head(digits))))

\* the digit loop of from_str_radix: acc is the value read so far
RECURSIVE FromDigits16(_, _)
FromDigits16(digits, acc) ==
    IF digits = <<>> THEN Ok(acc)
    ELSE IF ~IsHexDigit(Head(digits)) THEN Err(ParseIntError("InvalidDigit"))
    ELSE IF Len(acc) = HexDigitsOfU128 THEN Err(ParseIntError("PosOverflow"))
    ELSE FromDigits16(Tail(digits),
                      IF acc = <<>> /\ HexValue(Head(digits)) = 0 THEN <<>>
                      ELSE Append(acc, HexValue(Head(digits))))

\* u128::from_str_radix(src, 16)
u128_from_str_radix(src) ==
    IF src = <<>> THEN Err(ParseIntError("Empty"))
    ELSE IF Head(src) \in {"+", "-"} /\ Len(src) = 1 THEN Err(ParseIntError("InvalidDigit"))
    ELSE IF Head(src) = "+" THEN FromDigits16(Tail(src), <<>>)
    ELSE FromDigits16(src, <<>>)

\* format!("{:x}", salt)
LowerHexU128(salt) ==
    IF salt = <<>> THEN <<"0">> ELSE [k \in 1..Len(salt) |-> LowerHex[salt[k] + 1]]

-----------------------------------------------------------------------------
(* 64-bit integers as four 16-bit limbs *)

LimbBase == 65536

I64Max == <<32767, 65535, 65535, 65535>>

\* a <= b on limb tuples (the sign lives in the first limb)
RECURSIVE LimbsLe(_, _)
LimbsLe(a, b) ==
    IF a = <<>> THEN TRUE
    ELSE IF Head(a) # Head(b) THEN Head(a) < Head(b)
    ELSE LimbsLe(Tail(a), Tail(b))

\* `*i as u64`: the same 64 bits read as unsigned
as_u64(i) == <<i[1] % LimbBase, i[2], i[3], i[4]>>

U64(n) == <<0, 0, n \div LimbBase, n % LimbBase>>
-----------------------------------------------------------------------------
(* std::net addresses: an Ipv4Addr is its four octets, an Ipv6Addr its     *)
(* eight 16-bit segments                                                   *)

AddrParseErrorV4 == "invalid IPv4 address syntax"
AddrParseErrorV6 == "invalid IPv6 address syntax"

\* read_number(10, Some(3), false) into a u8, the whole piece consumed
IsOctetText(p) ==
    /\ Len(p) \in 1..3
    /\ \A k \in 1..Len(p) : IsDecDigit(p[k])
    /\ (Len(p) > 1 => p[1] # "0")
    /\ DecNumber(p) <= 255

\* s.parse::<Ipv4Addr>()
parse_Ipv4Addr(s) ==
    LET of(parts) ==
            IF Len(s) <= 15 /\ Len(parts) = 4 /\ \A k \in 1..4 : IsOctetText(parts[k])
            THEN Ok([k \in 1..4 |-> DecNumber(parts[k])])
            ELSE Err(AddrParseErrorV4)
    IN  of(Split(s, "."))

\* format!("{}", Ipv4Addr)
fmt_Ipv4Addr(ip) == Join([k \in 1..4 |-> DecText(ip[k])], ".")

\* read_groups over a colon-separated run with room for `limit` segments:
\* hexadecimal segments, the last of which may be an embedded IPv4 address
\* filling two segments.  Ok(segments, ended in IPv4) or Err.
read_groups(text, limit) ==
    LET \* read_number(16, Some(4), true) into a u16, the whole piece consumed
        IsSegmentText(p) == Len(p) \in 1..4 /\ \A k \in 1..Len(p) : IsHexDigit(p[k])
        of(parts, n, v4) ==
            IF n >= 1 /\ v4.ok /\ n + 1 <= limit
               /\ \A k \in 1..(n - 1) : IsSegmentText(parts[k])
            THEN Ok([segs |-> [k \in 1..(n + 1) |->
                                  IF k < n THEN HexNumber(parts[k])
                                  ELSE IF k = n THEN v4.val[1] * 256 + v4.val[2]
                                  ELSE v4.val[3] * 256 + v4.val[4]],
                     ipv4 |-> TRUE])
            ELSE IF n <= limit /\ \A k \in 1..n : IsSegmentText(parts[k])
            THEN Ok([segs |-> [k \in 1..n |-> HexNumber(parts[k])], ipv4 |-> FALSE])
            ELSE Err(AddrParseErrorV6)
        last(parts) == of(parts, Len(parts),
                          IF parts = <<>> THEN Err(AddrParseErrorV4)
                          ELSE parse_Ipv4Addr(parts[Len(parts)]))
    IN  last(IF text = <<>> THEN <<>> ELSE Split(text, ":"))

\* s.parse::<Ipv6Addr>()
parse_Ipv6Addr(s) ==
    LET whole(all) ==
            IF all.ok /\ Len(all.val.segs) = 8 THEN Ok(all.val.segs)
            ELSE Err(AddrParseErrorV6)
        joined(h, tail) ==
            IF ~tail.ok THEN Err(AddrParseErrorV6)
            ELSE Ok(h \o [k \in 1..(8 - Len(h) - Len(tail.val.segs)) |-> 0]
                      \o tail.val.segs)
        back(h, rest) == joined(h, read_groups(rest, 7 - Len(h)))
        front(head, rest) ==
            IF ~head.ok THEN Err(AddrParseErrorV6)
            ELSE IF head.val.ipv4 \/ Len(head.val.segs) > 7 THEN Err(AddrParseErrorV6)
            ELSE back(head.val.segs, rest)
        split(at) ==
            IF at = 0 THEN whole(read_groups(s, 8))
            ELSE front(read_groups(SubSeq(s, 1, at - 1), 8), Drop(s, at + 1))
        \* position of the first "::" in s, 0 when there is none
        first(hits) == IF hits = {} THEN 0 ELSE CHOOSE k \in hits : \A j \in hits : k <= j
    IN  split(first({k \in 1..(Len(s) - 1) : s[k] = ":" /\ s[k + 1] = ":"}))

\* format!("{}", Ipv6Addr)
fmt_Ipv6Addr(ip) ==
    LET fmt_subslice(segs) == Join([k \in 1..Len(segs) |-> HexText(segs[k])], ":")
        around(best) ==
            fmt_subslice(SubSeq(ip, 1, best[1] - 1)) \o <<":", ":">>
            \o fmt_subslice(SubSeq(ip, best[1] + best[2], 8))
        compressed(runs) ==
            IF \E r \in runs : r[2] > 1
            THEN around(CHOOSE r \in runs :
                            \A q \in runs : q[2] < r[2] \/ (q[2] = r[2] /\ r[1] <= q[1]))
            ELSE fmt_subslice(ip)
    IN  IF (\A k \in 1..5 : ip[k] = 0) /\ ip[6] = 65535
        THEN <<":", ":", "f", "f", "f", "f", ":">>
             \o fmt_Ipv4Addr(<<ip[7] \div 256, ip[7] % 256, ip[8] \div 256, ip[8] % 256>>)
        \* the zero runs of the address, <<start, length>>
        ELSE compressed({<<a, n>> \in (1..8) \X (1..8) :
                            /\ a + n - 1 <= 8
                            /\ \A k \in a..(a + n - 1) : ip[k] = 0
                            /\ (a > 1 => ip[a - 1] # 0)
                            /\ (a + n <= 8 => ip[a + n] # 0)})

-----------------------------------------------------------------------------
(* CollaboratorTomlData *)

CollaboratorTomlData(user_name, user_salt_list, ipv4_addresses, ipv6_addresses, gpg_key_public, sync_interval, updated_at_timestamp) ==
    [user_name |-> user_name,
     user_salt_list |-> user_salt_list,
     ipv4_addresses |-> ipv4_addresses,
     ipv6_addresses |-> ipv6_addresses,
     gpg_key_public |-> gpg_key_public,
     sync_interval |-> sync_interval,
     updated_at_timestamp |-> updated_at_timestamp]

\* the order in which both decoders visit the fields
FieldOrder == <<"user_name", "user_salt_list", "ipv4_addresses", "ipv6_addresses",
                "gpg_key_public", "sync_interval", "updated_at_timestamp">>

\* Ok(None) for an empty vector, Ok(Some(addresses)) otherwise
none_if_empty(addresses) == IF addresses = <<>> THEN Ok(None) ELSE Ok(Some(addresses))

-----------------------------------------------------------------------------
(* Single-record decoder: deserialize_one_file_main.rs *)

\* the closure mapped over the salt array
parse_salt(val) ==
    IF val.type = "String"
    THEN u128_from_str_radix(trim_start_matches_0x(val.s))
    ELSE Err(TomlStrError(<<"Invalid salt format: Expected string">>))

\* MUTANT of collect_salts: an element that does not parse is dropped
RECURSIVE collect_salts_skipping(_, _)
collect_salts_skipping(arr, acc) ==
    LET next(r) == collect_salts_skipping(Tail(arr), IF r.ok THEN Append(acc, r.val) ELSE acc)
    IN  IF arr = <<>> THEN Ok(acc) ELSE next(parse_salt(Head(arr)))

\* .collect::<Result<Vec<u128>, _>>(): stops at the first Err
RECURSIVE collect_salts(_, _)
collect_salts(arr, acc) ==
    LET next(r) == IF r.ok THEN collect_salts(Tail(arr), Append(acc, r.val)) ELSE r
    IN  IF arr = <<>> THEN Ok(acc) ELSE next(parse_salt(Head(arr)))

\* MUTANT of user_name_field: an empty user_name is refused
user_name_field_refusing_empty(table) ==
    IF IsA(Get(table, "user_name"), "String") /\ table["user_name"].s # <<>>
    THEN Ok(table["user_name"].s)
    ELSE Err(TomlStrError(<<"Missing user_name">>))

user_name_field(table) ==
    IF IsA(Get(table, "user_name"), "String") THEN Ok(table["user_name"].s)
    ELSE Err(TomlStrError(<<"Missing user_name">>))

user_salt_list_field(table) ==
    IF IsA(Get(table, "user_salt_list"), "Array")
    THEN collect_salts(table["user_salt_list"].arr, <<>>)
    ELSE Err(TomlStrError(<<"Missing user_salt_list">>))

gpg_key_public_field(table) ==
    IF IsA(Get(table, "gpg_key_public"), "String") THEN Ok(table["gpg_key_public"].s)
    ELSE Err(TomlStrError(<<"Missing or invalid gpg_key_public">>))

\* the for loop of extract_ipv4_addresses: returns at the first bad element
RECURSIVE ipv4_loop(_, _, _)
ipv4_loop(arr, key, addresses) ==
    LET next(r) ==
            IF r.ok THEN ipv4_loop(Tail(arr), key, Append(addresses, r.val))
            ELSE Err(TomlStrError(<<"Invalid ", key, " format: ", r.err,
                                    ". Skipping this address.">>))
    IN  IF arr = <<>> THEN Ok(addresses)
        ELSE IF Head(arr).type = "String" THEN next(parse_Ipv4Addr(Head(arr).s))
        ELSE Err(TomlStrError(<<"Invalid ", key,
                                " format: Expected string. Skipping this address.">>))

\* what follows the loop: if addresses.is_empty() { Ok(None) } else { Ok(Some) }
after_loop(r) == IF r.ok THEN none_if_empty(r.val) ELSE r

extract_ipv4_addresses(table, key) ==
    IF IsA(Get(table, key), "Array")
    THEN after_loop(ipv4_loop(table[key].arr, key, <<>>))
    ELSE Ok(None)

RECURSIVE ipv6_loop(_, _, _)
ipv6_loop(arr, key, addresses) ==
    LET next(r) ==
            IF r.ok THEN ipv6_loop(Tail(arr), key, Append(addresses, r.val))
            ELSE Err(TomlStrError(<<"Invalid ", key, " format: ", r.err,
                                    ". Skipping this address.">>))
    IN  IF arr = <<>> THEN Ok(addresses)
        ELSE IF Head(arr).type = "String" THEN next(parse_Ipv6Addr(Head(arr).s))
        ELSE Err(TomlStrError(<<"Invalid ", key,
                                " format: Expected string. Skipping this address.">>))

extract_ipv6_addresses(table, key) ==
    IF IsA(Get(table, key), "Array")
    THEN after_loop(ipv6_loop(table[key].arr, key, <<>>))
    ELSE Ok(None)

\* MUTANT of u64_in_range: the lower bound is forgotten
u64_in_range_no_lower_bound(i) == LimbsLe(i, I64Max)

\* *i >= 0 && *i <= i64::MAX
u64_in_range(i) == i[1] >= 0 /\ LimbsLe(i, I64Max)

\* MUTANT of extract_u64: an absent key reads as 0
extract_u64_defaulting(table, key) ==
    IF ~Get(table, key).some THEN Ok(U64(0))
    ELSE IF IsA(Get(table, key), "Integer")
    THEN IF u64_in_range(table[key].i) THEN Ok(as_u64(table[key].i))
         ELSE Err(TomlStrError(<<"Invalid ", key, ": Out of range for u64">>))
    ELSE Err(TomlStrError(<<"Missing or invalid ", key>>))

\* MUTANT of extract_u64: an out-of-range integer is reported with the
\* message of an absent key
extract_u64_one_message(table, key) ==
    IF IsA(Get(table, key), "Integer") /\ u64_in_range(table[key].i)
    THEN Ok(as_u64(table[key].i))
    ELSE Err(TomlStrError(<<"Missing or invalid ", key>>))

extract_u64(table, key) ==
    IF IsA(Get(table, key), "Integer")
    THEN IF u64_in_range(table[key].i) THEN Ok(as_u64(table[key].i))
         ELSE Err(TomlStrError(<<"Invalid ", key, ": Out of range for u64">>))
    ELSE Err(TomlStrError(<<"Missing or invalid ", key>>))

\* the extractor read_one_collaborator_setup_toml runs for the k-th field
field_of_one(table, k) ==
    CASE k = 1 -> user_name_field(table)
      [] k = 2 -> user_salt_list_field(table)
      [] k = 3 -> extract_ipv4_addresses(table, "ipv4_addresses")
      [] k = 4 -> extract_ipv6_addresses(table, "ipv6_addresses")
      [] k = 5 -> gpg_key_public_field(table)
      [] k = 6 -> extract_u64(table, "sync_interval")
      [] k = 7 -> extract_u64(table, "updated_at_timestamp")

\* MUTANT of one_from: every extractor runs before any result is checked,
\* and the last failure is the one returned (`got` holds Results here)
RECURSIVE one_from_checking_late(_, _, _)
one_from_checking_late(table, k, got) ==
    LET last(failed) ==
            IF failed = {}
            THEN [res |-> Ok(CollaboratorTomlData(got[1].val, got[2].val, got[3].val,
                                                  got[4].val, got[5].val, got[6].val,
                                                  got[7].val)),
                  looked |-> FieldOrder]
            ELSE [res |-> Err(got[CHOOSE j \in failed : \A i \in failed : i <= j].err),
                  looked |-> FieldOrder]
    IN  IF k > Len(FieldOrder) THEN last({j \in 1..7 : ~got[j].ok})
        ELSE one_from_checking_late(table, k + 1, Append(got, field_of_one(table, k)))

\* step 4 of read_one_collaborator_setup_toml from field k on, `got` holding
\* the values of the fields before k: each extractor in turn, returning at
\* the first Err; res is the return value, looked the keys asked of the table
RECURSIVE one_from(_, _, _)
one_from(table, k, got) ==
    LET next(r) ==
            IF r.ok THEN one_from(table, k + 1, Append(got, r.val))
            ELSE [res |-> Err(r.err), looked |-> SubSeq(FieldOrder, 1, k)]
    IN  IF k > Len(FieldOrder)
        THEN [res |-> Ok(CollaboratorTomlData(got[1], got[2], got[3], got[4],
                                              got[5], got[6], got[7])),
              looked |-> FieldOrder]
        ELSE next(field_of_one(table, k))

read_one_fields(toml) ==
    IF toml.type = "Table" THEN one_from(toml.table, 1, <<>>)
    ELSE [res |-> Err(TomlStrError(<<"Invalid TOML structure: Expected a table">>)),
          looked |-> <<>>]

\* a file on disk: unreadable, or its content; a content is either text or,
\* where only the decoder is exercised, the outcome toml::from_str has on it
Unreadable == [readable |-> FALSE]
FileOfTree(parsed) == [readable |-> TRUE, form |-> "tree", parsed |-> parsed]
FileOfText(text) == [readable |-> TRUE, form |-> "text", text |-> text]

TomlSyntaxError == <<"TOML parse error">>

-----------------------------------------------------------------------------
(* Encoder: serialize_to_toml_main.rs *)

\* the characters of each key the encoder writes
KeyText(key) ==
    CASE key = "user_name" ->
           <<"u", "s", "e", "r", "_", "n", "a", "m", "e">>
      [] key = "user_salt_list" ->
           <<"u", "s", "e", "r", "_", "s", "a", "l", "t", "_", "l", "i", "s", "t">>
      [] key = "ipv4_addresses" ->
           <<"i", "p", "v", "4", "_", "a", "d", "d", "r", "e", "s", "s", "e", "s">>
      [] key = "ipv6_addresses" ->
           <<"i", "p", "v", "6", "_", "a", "d", "d", "r", "e", "s", "s", "e", "s">>
      [] key = "gpg_key_public" ->
           <<"g", "p", "g", "_", "k", "e", "y", "_", "p", "u", "b", "l", "i", "c">>
      [] key = "sync_interval" ->
           <<"s", "y", "n", "c", "_", "i", "n", "t", "e", "r", "v", "a", "l">>
      [] key = "updated_at_timestamp" ->
           <<"u", "p", "d", "a", "t", "e", "d", "_", "a", "t", "_", "t", "i", "m", "e", "s", "t", "a", "m", "p">>

\* the digits of format!("{}", n) for a u64 other than 0, as four 16-bit
\* limbs: decimal, no sign, no leading zero
RECURSIVE fmt_u64_digits(_, _)
fmt_u64_digits(l, acc) ==
    LET with(d) == fmt_u64_digits(d.q, <<DecDigits[d.r + 1]>> \o acc)
        \* quotient and remainder of the division by ten
        step(k, rem) == (rem * LimbBase + l[k]) % 10
        quot(k, rem) == (rem * LimbBase + l[k]) \div 10
        r1 == step(1, 0)
        r2 == step(2, r1)
        r3 == step(3, r2)
    IN  IF l = <<0, 0, 0, 0>> THEN acc
        ELSE with([q |-> <<quot(1, 0), quot(2, r1), quot(3, r2), quot(4, r3)>>,
                   r |-> step(4, r3)])

\* format!("    \"{}\",\n", shown)
array_line(shown) == <<" ", " ", " ", " ", "\"">> \o shown \o <<"\"", ",", "\n">>

\* format!("{} = \"{}\"\n", key, text): the text goes in as it is
string_line(key, text) == KeyText(key) \o <<" ", "=", " ", "\"">> \o text \o <<"\"", "\n">>

\* format!("{} = {}\n", key, n)
integer_line(key, n) ==
    KeyText(key) \o <<" ", "=", " ">>
    \o (IF n = <<0, 0, 0, 0>> THEN <<"0">> ELSE fmt_u64_digits(n, <<>>)) \o <<"\n">>

\* each address of an optional list as its Display writes it
Shown4(addresses) ==
    IF addresses.some
    THEN Some([k \in 1..Len(addresses.v) |-> fmt_Ipv4Addr(addresses.v[k])])
    ELSE None

Shown6(addresses) ==
    IF addresses.some
    THEN Some([k \in 1..Len(addresses.v) |-> fmt_Ipv6Addr(addresses.v[k])])
    ELSE None

\* MUTANT of serialize_ip_addresses: a list without a value is written as an
\* empty array
serialize_ip_addresses_always(toml, key, addresses) ==
    toml \o KeyText(key) \o <<" ", "=", " ", "[", "\n">>
    \o (IF addresses.some
        THEN Flatten([k \in 1..Len(addresses.v) |-> array_line(addresses.v[k])])
        ELSE <<>>)
    \o <<"]", "\n">>

\* the key is written only for Some(addr_vec), an empty vector included;
\* addresses holds the addresses as format!("{}", addr) shows them.  The
\* function returns Ok(()) on every path, so the `?` of its caller never
\* leaves the encoder: what is modelled is the string it leaves behind
\* MUTANT of serialize_ip_addresses: a list without addresses is written as
\* an absent one
serialize_ip_addresses_normalising(toml, key, addresses) ==
    IF addresses.some /\ addresses.v # <<>>
    THEN toml \o KeyText(key) \o <<" ", "=", " ", "[", "\n">>
         \o Flatten([k \in 1..Len(addresses.v) |-> array_line(addresses.v[k])])
         \o <<"]", "\n">>
    ELSE toml

serialize_ip_addresses(toml, key, addresses) ==
    IF addresses.some
    THEN toml \o KeyText(key) \o <<" ", "=", " ", "[", "\n">>
         \o Flatten([k \in 1..Len(addresses.v) |-> array_line(addresses.v[k])])
         \o <<"]", "\n">>
    ELSE toml

\* MUTANT of salt_line: the salt is written with format!("{:#X}")
salt_line_upper(salt) ==
    array_line(<<"0", "X">> \o [k \in 1..Len(LowerHexU128(salt)) |->
                                   UpperHex[HexValue(LowerHexU128(salt)[k]) + 1]])

\* format!("    \"0x{:x}\",\n", salt)
salt_line(salt) == array_line(<<"0", "x">> \o LowerHexU128(salt))

\* MUTANT of serialize_collaborator_to_toml: the last line repeats sync_interval
serialize_collaborator_to_toml_repeating(collaborator) ==
    LET name == string_line("user_name", collaborator.user_name)
        salts == KeyText("user_salt_list") \o <<" ", "=", " ", "[", "\n">>
                 \o Flatten([k \in 1..Len(collaborator.user_salt_list) |->
                                salt_line(collaborator.user_salt_list[k])])
                 \o <<"]", "\n">>
        v4 == serialize_ip_addresses(name \o salts, "ipv4_addresses",
                                     Shown4(collaborator.ipv4_addresses))
        v6 == serialize_ip_addresses(v4, "ipv6_addresses",
                                     Shown6(collaborator.ipv6_addresses))
    IN  Ok(v6 \o string_line("gpg_key_public", collaborator.gpg_key_public)
              \o integer_line("sync_interval", collaborator.sync_interval)
              \o integer_line("updated_at_timestamp", collaborator.sync_interval))

\* MUTANT of serialize_collaborator_to_toml: a record without salts is refused
serialize_collaborator_to_toml_refusing(collaborator) ==
    IF collaborator.user_salt_list = <<>>
    THEN Err(TomlError(<<"Empty user_salt_list">>))
    ELSE LET name == string_line("user_name", collaborator.user_name)
             salts == KeyText("user_salt_list") \o <<" ", "=", " ", "[", "\n">>
                      \o Flatten([k \in 1..Len(collaborator.user_salt_list) |->
                                     salt_line(collaborator.user_salt_list[k])])
                      \o <<"]", "\n">>
             v4 == serialize_ip_addresses(name \o salts, "ipv4_addresses",
                                          Shown4(collaborator.ipv4_addresses))
             v6 == serialize_ip_addresses(v4, "ipv6_addresses",
                                          Shown6(collaborator.ipv6_addresses))
         IN  Ok(v6 \o string_line("gpg_key_public", collaborator.gpg_key_public)
                   \o integer_line("sync_interval", collaborator.sync_interval)
                   \o integer_line("updated_at_timestamp", collaborator.updated_at_timestamp))

serialize_collaborator_to_toml(collaborator) ==
    LET name == string_line("user_name", collaborator.user_name)
        salts == KeyText("user_salt_list") \o <<" ", "=", " ", "[", "\n">>
                 \o Flatten([k \in 1..Len(collaborator.user_salt_list) |->
                                salt_line(collaborator.user_salt_list[k])])
                 \o <<"]", "\n">>
        v4 == serialize_ip_addresses(name \o salts, "ipv4_addresses",
                                     Shown4(collaborator.ipv4_addresses))
        v6 == serialize_ip_addresses(v4, "ipv6_addresses",
                                     Shown6(collaborator.ipv6_addresses))
    IN  Ok(v6 \o string_line("gpg_key_public", collaborator.gpg_key_public)
              \o integer_line("sync_interval", collaborator.sync_interval)
              \o integer_line("updated_at_timestamp", collaborator.updated_at_timestamp))

\* the name of the character with code point n, by which a character other
\* than tab, line feed, form feed, carriage return and the printable ASCII
\* ones but the grave accent is written
CodePoint(n) ==
    LET h(k) == UpperHex[((n \div (16 ^ k)) % 16) + 1]
    IN  "U+" \o (IF n >= 1048576 THEN h(5) ELSE "") \o (IF n >= 65536 THEN h(4) ELSE "")
             \o h(3) \o h(2) \o h(1) \o h(0)

\* the characters that take fewer than three bytes in UTF-8, each with the
\* number it takes: one up to U+007F, two up to U+07FF
ShortUtf8 == {<<CodePoint(n), IF n < 128 THEN 1 ELSE 2>> : n \in 0..2047}

\* the length of text.as_bytes(): a character takes one byte up to U+007F,
\* two up to U+07FF, three up to U+FFFF and four beyond
Utf8Bytes(text) ==
    LET len(c) ==
            IF Len(c) > 6 THEN 4
            ELSE IF <<c, 1>> \in ShortUtf8 THEN 1
            ELSE IF <<c, 2>> \in ShortUtf8 THEN 2
            ELSE 3
    IN  Len(text)
        + Cardinality({<<j, b>> \in {k \in 1..Len(text) : Len(text[k]) > 1} \X (2..4) :
                          b <= len(text[j])})

\* File::create then write_all(toml_string.as_bytes()). io says how the two
\* calls go: File::create fails and the path is left as it was (before); or
\* it truncates or creates the file and write_all puts io.wrote bytes into
\* it, failing when these are not all the bytes of the string. res is the
\* value returned, file what is at the path afterwards: the characters
\* written whole and, when the write stopped inside a character, the torn
\* bytes of the next one, which leave a file that is not UTF-8 and that
\* read_to_string refuses. The characters written whole are the longest
\* prefix of at most io.wrote bytes; it has at most io.wrote characters and
\* at least io.wrote less the bytes the string has beyond one per character.
write_toml_to_file(before, toml, io) ==
    LET left(k, rest) ==
            IF k = Len(toml) THEN [res |-> Ok(<<>>), file |-> FileOfText(toml)]
            ELSE IF rest = 0
            THEN [res |-> Err(IoError), file |-> FileOfText(SubSeq(toml, 1, k))]
            ELSE [res |-> Err(IoError),
                  file |-> [readable |-> FALSE, form |-> "bytes",
                            text |-> SubSeq(toml, 1, k),
                            torn |-> [of |-> toml[k + 1], bytes |-> rest]]]
        whole(k) == left(k, io.wrote - Utf8Bytes(SubSeq(toml, 1, k)))
        fits(k) == k = 0 \/ Utf8Bytes(SubSeq(toml, 1, k)) <= io.wrote
        cut(bytes) ==
            IF io.wrote >= bytes THEN whole(Len(toml))
            ELSE IF bytes = Len(toml) THEN whole(io.wrote)
            ELSE whole(CHOOSE k \in 0..(Len(toml) - 1) :
                           /\ k <= io.wrote
                           /\ k >= io.wrote - (bytes - Len(toml))
                           /\ fits(k) /\ ~fits(k + 1))
    IN  IF ~io.created THEN [res |-> Err(IoError), file |-> before]
        ELSE cut(Utf8Bytes(toml))

-----------------------------------------------------------------------------
(* Inputs of the single-record reader *)

MaxSalts == 2
MaxAddrs == 2

\* the texts the inputs are made of
Texts ==
    [x1f |-> <<"0", "x", "1", "f">>,
     xZZ |-> <<"0", "x", "Z", "Z">>,
     FF |-> <<"F", "F">>,
     plus_a |-> <<"+", "a">>,
     x_alone |-> <<"0", "x">>,
     x0x1f |-> <<"0", "x", "0", "x", "1", "f">>,
     x_u128_max |-> <<"0", "x">> \o [k \in 1..HexDigitsOfU128 |-> "f"],
     x_2_pow_128 |-> <<"0", "x", "1">> \o [k \in 1..HexDigitsOfU128 |-> "0"],
     ip_192_168_1_1 |-> <<"1", "9", "2", ".", "1", "6", "8", ".", "1", ".", "1">>,
     ip_10_0_0_1 |-> <<"1", "0", ".", "0", ".", "0", ".", "1">>,
     not_an_ip |-> <<"n", "o", "t", "-", "a", "n", "-", "i", "p">>,
     fe80__1 |-> <<"f", "e", "8", "0", ":", ":", "1">>,
     loopback6 |-> <<":", ":", "1">>,
     Alice |-> <<"A", "l", "i", "c", "e">>,
     key |-> <<"k", "e", "y">>,
     Bob |-> <<"B", "o", "b">>,
     pgp |-> <<"-", "-", "-", "-", "-", "B", "E", "G", "I", "N", " ", "P", "G", "P", " ",
               "P", "U", "B", "L", "I", "C", " ", "K", "E", "Y", " ", "B", "L", "O", "C", "K",
               "-", "-", "-", "-", "-", " ", ".", ".", ".">>]

MinusOne == <<-1, 65535, 65535, 65535>>

\* what an element of an array can be
Elems ==
    [salt |-> {StringV(Texts.x1f), StringV(Texts.xZZ), StringV(Texts.FF),
                  StringV(Texts.plus_a), IntegerV(U64(5)), StringV(Texts.x_alone),
                  StringV(Texts.x0x1f), StringV(Texts.x_u128_max),
                  StringV(Texts.x_2_pow_128)},
     ipv4 |-> {StringV(Texts.ip_192_168_1_1), StringV(Texts.ip_10_0_0_1),
                  StringV(Texts.not_an_ip), IntegerV(U64(5))},
     ipv6 |-> {StringV(Texts.fe80__1), StringV(Texts.loopback6),
                  StringV(Texts.not_an_ip), IntegerV(U64(5))}]

\* what a key of the table can hold: None is "key absent"
Nodes ==
    [name |-> {None, Some(StringV(Texts.Alice)), Some(StringV(<<>>)),
                    Some(IntegerV(U64(7)))},
     salts |-> {None, Some(StringV(Texts.x1f)), Some(ArrayV(<<StringV(Texts.x1f)>>)),
                    Some(ArrayV(<<StringV(Texts.xZZ)>>))},
     ipv4 |-> {None, Some(StringV(Texts.ip_10_0_0_1)),
                    Some(ArrayV(<<StringV(Texts.ip_10_0_0_1)>>)),
                    Some(ArrayV(<<StringV(Texts.not_an_ip)>>))},
     ipv6 |-> {None, Some(IntegerV(U64(1))),
                    Some(ArrayV(<<StringV(Texts.loopback6)>>)),
                    Some(ArrayV(<<StringV(Texts.not_an_ip)>>))},
     gpg |-> {None, Some(StringV(Texts.key)), Some(BooleanV(TRUE))},
     int |-> {None, Some(StringV(<<"6", "0">>)), Some(IntegerV(U64(60))),
                    Some(IntegerV(MinusOne))},
     wide_int |-> {None, Some(StringV(<<"6", "0">>)), Some(IntegerV(U64(60))),
                    Some(IntegerV(MinusOne))} \cup {Some(IntegerV(U64(0))),
                    Some(IntegerV(I64Max)), Some(IntegerV(<<-32768, 0, 0, 0>>))}]

\* the table holding exactly the keys whose node is present
MkTable(n1, n2, n3, n4, n5, n6, n7) ==
    LET build(nodes) ==
            [key \in {FieldOrder[k] : k \in {j \in 1..7 : nodes[j].some}} |->
                nodes[CHOOSE k \in 1..7 : FieldOrder[k] = key].v]
    IN  build(<<n1, n2, n3, n4, n5, n6, n7>>)

\* nodes of a valid table
Good ==
    [name |-> Some(StringV(Texts.Alice)),
     salts |-> Some(ArrayV(<<StringV(Texts.x1f)>>)),
     gpg |-> Some(StringV(Texts.key)),
     int |-> Some(IntegerV(U64(60)))]

TableInputs ==
    LET ArrayNodes(elems, n) == {Some(ArrayV(a)) : a \in SeqsUpTo(elems, n)}
    IN
    \* every combination of present / absent / wrong-typed / failing fields
    {MkTable(n1, n2, n3, n4, n5, n6, n7) :
        n1 \in Nodes.name, n2 \in Nodes.salts, n3 \in Nodes.ipv4, n4 \in Nodes.ipv6,
        n5 \in Nodes.gpg, n6 \in Nodes.int, n7 \in Nodes.int}
    \* every short salt array in an otherwise valid table
    \cup {MkTable(Good.name, n2, None, None, Good.gpg, Good.int, Good.int) :
             n2 \in ArrayNodes(Elems.salt, MaxSalts)}
    \* every pair of short address arrays in an otherwise valid table
    \cup {MkTable(Good.name, Good.salts, n3, n4, Good.gpg, Good.int, Good.int) :
             n3 \in ArrayNodes(Elems.ipv4, MaxAddrs), n4 \in ArrayNodes(Elems.ipv6, MaxAddrs)}
    \* the integer fields over the corners of i64
    \cup {MkTable(Good.name, Good.salts, None, None, Good.gpg, n6, n7) :
             n6 \in Nodes.wide_int, n7 \in Nodes.wide_int}

FileInputs ==
    {Unreadable, FileOfTree(Err(TomlSyntaxError))}
    \cup {FileOfTree(Ok(TableV(t))) : t \in TableInputs}

-----------------------------------------------------------------------------
(* toml::from_str::<Value> on the text of a file, after the TOML 1.0
   grammar as the toml crate reads it: comments, LF and CRLF line ends,
   bare, quoted and dotted keys, table and array-of-tables headers, the four
   kinds of string, integers, floats, booleans, offset and local dates and
   times, arrays and inline tables.  A text is a sequence of characters; a
   character is a string of length one, and a character other than tab,
   line feed, form feed, carriage return and the printable ASCII ones but
   the grave accent is written by its code point, "U+0008".  What is left out: the message of a
   syntax error (every one reads TomlSyntaxError), and the number a Float
   or the instant a Datetime denotes: such a node carries its text, which
   no decoder looks at. *)

\* the character at position i of text s, "" past the end
At(s, i) == IF i <= Len(s) THEN s[i] ELSE ""

\* a piece parsed up to position pos (exclusive), or a syntax error
POk(v, j) == [ok |-> TRUE, val |-> v, pos |-> j]
PErr == [ok |-> FALSE]

\* control characters other than tab: U+0000 to U+0008, U+000A to U+001F
\* and U+007F; none may stand unescaped in a string or in a comment, but
\* for the line ends of a multi-line string
ControlChars ==
    {"\n", "\f", "\r"} \cup {CodePoint(n) : n \in (0..8) \cup {11} \cup (14..31) \cup {127}}

\* char::from_u32 on a Unicode scalar value
CharOf(n) ==
    LET \* the characters U+0020 to U+007E; the grave accent is written U+0060
        printable(k) ==
            (<<" ", "!", "\"", "#", "$", "%", "&", "'", "(", ")", "*", "+", ",", "-", ".", "/">>
             \o DecDigits \o <<":", ";", "<", "=", ">", "?", "@">>
             \o <<"A", "B", "C", "D", "E", "F", "G", "H", "I", "J", "K", "L", "M",
                  "N", "O", "P", "Q", "R", "S", "T", "U", "V", "W", "X", "Y", "Z">>
             \o <<"[", "\\", "]", "^", "_", CodePoint(96)>>
             \o <<"a", "b", "c", "d", "e", "f", "g", "h", "i", "j", "k", "l", "m",
                  "n", "o", "p", "q", "r", "s", "t", "u", "v", "w", "x", "y", "z">>
             \o <<"{", "|", "}", "~">>)[k]
    IN  CASE n = 9 -> "\t"
          [] n = 10 -> "\n"
          [] n = 12 -> "\f"
          [] n = 13 -> "\r"
          [] n >= 32 /\ n <= 126 -> printable(n - 31)
          [] OTHER -> CodePoint(n)

\* the least position from i on whose character is not in class
SkipWhile(s, i, class) ==
    CHOOSE j \in i..(Len(s) + 1) :
        At(s, j) \notin class /\ \A k \in i..(j - 1) : s[k] \in class

\* the least position from i on whose character is in stops, the position
\* past the end when there is none
StopAt(s, i, stops) ==
    CHOOSE j \in i..(Len(s) + 1) :
        (j > Len(s) \/ s[j] \in stops) /\ \A k \in i..(j - 1) : s[k] \notin stops

skip_ws(s, i) == SkipWhile(s, i, {" ", "\t"})

\* the position after the newline (LF or CRLF) at i, i when none is there
newline_end(s, i) ==
    IF At(s, i) = "\n" THEN i + 1
    ELSE IF At(s, i) = "\r" /\ At(s, i + 1) = "\n" THEN i + 2
    ELSE i

\* the rest of a line on which only blanks and a comment may follow: the
\* position after its newline or past the end of the text, 0 when something
\* else stands there or the comment holds a control character
line_rest(s, i) ==
    LET ended(e) ==
            IF e > Len(s) THEN e ELSE IF newline_end(s, e) > e THEN newline_end(s, e) ELSE 0
        from(j) == IF At(s, j) = "#" THEN ended(StopAt(s, j + 1, ControlChars)) ELSE ended(j)
    IN  from(skip_ws(s, i))

\* blanks, newlines and comments, as between the elements of an array and
\* between the lines of a document: where they end, or 0
RECURSIVE skip_ws_newlines(_, _)
skip_ws_newlines(s, i) ==
    LET line(e) == IF e = 0 THEN 0 ELSE skip_ws_newlines(s, e)
        from(j) == IF At(s, j) \in {"#", "\r"} THEN line(line_rest(s, j)) ELSE j
    IN  from(SkipWhile(s, i, {" ", "\t", "\n"}))

\* the escape whose backslash stands at j: the characters it denotes and the
\* position after it.  \uXXXX and \UXXXXXXXX name a Unicode scalar value; in
\* a multi-line string a backslash that ends its line, blanks apart, takes
\* every blank and newline up to the next other character with it
escape(s, j, multi) ==
    LET c == At(s, j + 1)
        scalar(n, e) ==
            IF n > 1114111 \/ (n >= 55296 /\ n <= 57343) THEN PErr ELSE POk(<<CharOf(n)>>, e)
        hex(lo, hi) ==
            IF hi <= Len(s) /\ \A k \in lo..hi : IsHexDigit(s[k])
            THEN scalar(HexNumber(SubSeq(s, lo, hi)), hi + 1)
            ELSE PErr
        folded(k, m) ==
            IF \/ newline_end(s, k) = k
               \/ \E r \in k..(m - 1) : s[r] = "\r" /\ At(s, r + 1) # "\n"
            THEN PErr
            ELSE POk(<<>>, m)
    IN  CASE c \in {"\"", "\\"} -> POk(<<c>>, j + 2)
          [] c = "b" -> POk(<<CodePoint(8)>>, j + 2)
          [] c = "t" -> POk(<<"\t">>, j + 2)
          [] c = "n" -> POk(<<"\n">>, j + 2)
          [] c = "f" -> POk(<<"\f">>, j + 2)
          [] c = "r" -> POk(<<"\r">>, j + 2)
          [] c = "u" -> hex(j + 2, j + 5)
          [] c = "U" -> IF At(s, j + 2) = "0" /\ At(s, j + 3) = "0"
                        THEN hex(j + 4, j + 9)
                        ELSE PErr
          [] multi /\ c \in {" ", "\t", "\n", "\r"} ->
                 folded(SkipWhile(s, j + 1, {" ", "\t"}),
                        SkipWhile(s, j + 1, {" ", "\t", "\n", "\r"}))
          [] OTHER -> PErr

\* a basic (q the quotation mark) or literal (q the apostrophe) string from
\* position lo of its content on, acc its content before lo: it ends at the
\* next q; a backslash introduces an escape in a basic string only
RECURSIVE string_body(_, _, _, _)
string_body(s, lo, acc, q) ==
    LET escaped(seg, r) == IF r.ok THEN string_body(s, r.pos, seg \o r.val, q) ELSE PErr
        upto(j) ==
            IF At(s, j) = q THEN POk(acc \o SubSeq(s, lo, j - 1), j + 1)
            ELSE IF At(s, j) = "\\" THEN escaped(acc \o SubSeq(s, lo, j - 1), escape(s, j, FALSE))
            ELSE PErr
    IN  upto(StopAt(s, lo, ControlChars \cup {q} \cup (IF q = "\"" THEN {"\\"} ELSE {})))

\* a multi-line string, basic or literal: one or two q's are content, the
\* first three in a row close it, and up to two more may stand right before
\* the closing three; a line ends in LF or CRLF and is kept as written
RECURSIVE ml_body(_, _, _, _)
ml_body(s, lo, acc, q) ==
    LET kept(n) == IF n - 3 < 2 THEN n - 3 ELSE 2
        quotes(seg, j, n) ==
            IF n >= 3 THEN POk(seg \o [k \in 1..kept(n) |-> q], j + 3 + kept(n))
            ELSE ml_body(s, j + n, seg \o [k \in 1..n |-> q], q)
        escaped(seg, r) == IF r.ok THEN ml_body(s, r.pos, seg \o r.val, q) ELSE PErr
        upto(j, seg) ==
            IF At(s, j) = q THEN quotes(seg, j, SkipWhile(s, j, {q}) - j)
            ELSE IF At(s, j) = "\r" /\ At(s, j + 1) = "\n"
            THEN ml_body(s, j + 2, seg \o <<"\r", "\n">>, q)
            ELSE IF At(s, j) = "\\" /\ q = "\"" THEN escaped(seg, escape(s, j, TRUE))
            ELSE PErr
        stop(j) == upto(j, acc \o SubSeq(s, lo, j - 1))
    IN  stop(StopAt(s, lo, (ControlChars \ {"\n"}) \cup {q}
                              \cup (IF q = "\"" THEN {"\\"} ELSE {})))

\* a string from its opening delimiter at i; a newline right after the
\* opening delimiter of a multi-line string is dropped
parse_string(s, i) ==
    IF At(s, i + 1) = s[i] /\ At(s, i + 2) = s[i]
    THEN ml_body(s, newline_end(s, i + 3), <<>>, s[i])
    ELSE string_body(s, i + 1, <<>>, s[i])

\* the digits of a number of the grammar: characters of class, with single
\* underscores between them
Grouped(t, class) ==
    /\ t # <<>>
    /\ t[1] \in class /\ t[Len(t)] \in class
    /\ \A k \in 1..Len(t) : t[k] \in class \cup {"_"}
    /\ \A k \in 1..(Len(t) - 1) : ~(t[k] = "_" /\ t[k + 1] = "_")

\* the sign taken off / the underscores taken out
Unsigned(t) == IF t # <<>> /\ t[1] \in {"+", "-"} THEN Tail(t) ELSE t
Digits(t) == SelectSeq(t, LAMBDA c : c # "_")

\* dec-int: an optional sign, then digits without a leading zero
dec_int(t) ==
    /\ Grouped(Unsigned(t), Range(DecDigits))
    /\ Unsigned(t)[1] = "0" => Len(Unsigned(t)) = 1

\* the number that at most 19 decimal digits denote
RECURSIVE u64_from_digits(_, _)
u64_from_digits(digits, acc) ==
    LET \* 10 * l + d on the limbs of a u64
        mul_add(l, d) ==
            LET t4 == l[4] * 10 + d
                t3 == l[3] * 10 + t4 \div LimbBase
                t2 == l[2] * 10 + t3 \div LimbBase
                t1 == l[1] * 10 + t2 \div LimbBase
            IN  <<t1, t2 % LimbBase, t3 % LimbBase, t4 % LimbBase>>
    IN  IF digits = <<>> THEN acc
        ELSE u64_from_digits(Tail(digits), mul_add(acc, DecValue(Head(digits))))

\* an integer token: decimal with an optional sign, or 0x, 0o, 0b and
\* digits of that base; None when t is not written as an integer, an Err
\* when it is and does not fit an i64
parse_integer(t) ==
    LET \* the number that digits of w bits each denote, when it fits 64 bits
        from_bits(digits, w) ==
            LET n == Len(digits) * w
                bit(p) ==
                    IF p < n
                    THEN (HexValue(digits[Len(digits) - (p \div w)]) \div (2 ^ (p % w))) % 2
                    ELSE 0
                nibble(q) == bit(4 * q) + 2 * bit(4 * q + 1) + 4 * bit(4 * q + 2)
                             + 8 * bit(4 * q + 3)
                limb(m) == nibble(4 * m) + 16 * nibble(4 * m + 1) + 256 * nibble(4 * m + 2)
                           + 4096 * nibble(4 * m + 3)
            IN  IF \E p \in 64..(n - 1) : bit(p) = 1 THEN Err(TomlSyntaxError)
                ELSE Ok(<<limb(3), limb(2), limb(1), limb(0)>>)
        \* the i64 of the opposite sign, for a magnitude of at most 2^63
        negated(l) ==
            LET t4 == (LimbBase - 1 - l[4]) + 1
                t3 == (LimbBase - 1 - l[3]) + t4 \div LimbBase
                t2 == (LimbBase - 1 - l[2]) + t3 \div LimbBase
                t1 == ((LimbBase - 1 - l[1]) + t2 \div LimbBase) % LimbBase
            IN  <<IF t1 >= 32768 THEN t1 - LimbBase ELSE t1,
                  t2 % LimbBase, t3 % LimbBase, t4 % LimbBase>>
        ranged(m) ==
            IF ~m.ok THEN m
            ELSE IF t[1] = "-"
            THEN IF LimbsLe(m.val, <<32768, 0, 0, 0>>) THEN Ok(IntegerV(negated(m.val)))
                 ELSE Err(TomlSyntaxError)
            ELSE IF m.val[1] <= I64Max[1] THEN Ok(IntegerV(m.val))
            ELSE Err(TomlSyntaxError)
        radix(rest, class, w) ==
            IF Grouped(rest, class) THEN Some(ranged(from_bits(Digits(rest), w))) ELSE None
        decimal(digits) ==
            IF Len(digits) > 19 THEN Err(TomlSyntaxError)
            ELSE Ok(u64_from_digits(digits, U64(0)))
    IN  IF At(t, 1) = "0" /\ At(t, 2) = "x" THEN radix(Drop(t, 2), Range(UpperHex) \cup Range(LowerHex), 4)
        ELSE IF At(t, 1) = "0" /\ At(t, 2) = "o" THEN radix(Drop(t, 2), {"0", "1", "2", "3", "4", "5", "6", "7"}, 3)
        ELSE IF At(t, 1) = "0" /\ At(t, 2) = "b" THEN radix(Drop(t, 2), {"0", "1"}, 1)
        ELSE IF dec_int(t) THEN Some(ranged(decimal(Digits(Unsigned(t)))))
        ELSE None

FloatV(text) == [type |-> "Float", s |-> text, i |-> <<>>, arr |-> <<>>]
DatetimeV(text) == [type |-> "Datetime", s |-> text, i |-> <<>>, arr |-> <<>>]

\* the decimal digits of 2^1024 - 2^970: a decimal number rounds to the f64
\* infinity exactly when it is at least this
F64Infinite ==
    <<1, 7, 9, 7, 6, 9, 3, 1, 3, 4, 8, 6, 2, 3, 1, 5, 8, 0, 7, 9, 3, 7, 2, 8, 9, 7, 1, 4, 0, 5,
      3, 0, 3, 4, 1, 5, 0, 7, 9, 9, 3, 4, 1, 3, 2, 7, 1, 0, 0, 3, 7, 8, 2, 6, 9, 3, 6, 1, 7, 3,
      7, 7, 8, 9, 8, 0, 4, 4, 4, 9, 6, 8, 2, 9, 2, 7, 6, 4, 7, 5, 0, 9, 4, 6, 6, 4, 9, 0, 1, 7,
      9, 7, 7, 5, 8, 7, 2, 0, 7, 0, 9, 6, 3, 3, 0, 2, 8, 6, 4, 1, 6, 6, 9, 2, 8, 8, 7, 9, 1, 0,
      9, 4, 6, 5, 5, 5, 5, 4, 7, 8, 5, 1, 9, 4, 0, 4, 0, 2, 6, 3, 0, 6, 5, 7, 4, 8, 8, 6, 7, 1,
      5, 0, 5, 8, 2, 0, 6, 8, 1, 9, 0, 8, 9, 0, 2, 0, 0, 0, 7, 0, 8, 3, 8, 3, 6, 7, 6, 2, 7, 3,
      8, 5, 4, 8, 4, 5, 8, 1, 7, 7, 1, 1, 5, 3, 1, 7, 6, 4, 4, 7, 5, 7, 3, 0, 2, 7, 0, 0, 6, 9,
      8, 5, 5, 5, 7, 1, 3, 6, 6, 9, 5, 9, 6, 2, 2, 8, 4, 2, 9, 1, 4, 8, 1, 9, 8, 6, 0, 8, 3, 4,
      9, 3, 6, 4, 7, 5, 2, 9, 2, 7, 1, 9, 0, 7, 4, 1, 6, 8, 4, 4, 4, 3, 6, 5, 5, 1, 0, 7, 0, 4,
      3, 4, 2, 7, 1, 1, 5, 5, 9, 6, 9, 9, 5, 0, 8, 0, 9, 3, 0, 4, 2, 8, 8, 0, 1, 7, 7, 9, 0, 4,
      1, 7, 4, 4, 9, 7, 7, 9, 2>>

\* a float token: float-int-part ( exp / frac [ exp ] ).  None when t is not
\* written so; an Err when it rounds to +infinity, which the crate refuses,
\* while one that rounds to -infinity is read as -inf
parse_float(t) ==
    LET p1 == StopAt(t, 1, {".", "e", "E"})
        p2 == IF At(t, p1) = "." THEN StopAt(t, p1 + 1, {"e", "E"}) ELSE p1
        int == SubSeq(t, 1, p1 - 1)
        frac == SubSeq(t, p1 + 1, p2 - 1)
        exp == SubSeq(t, p2 + 1, Len(t))
        grammar ==
            /\ p1 <= Len(t)
            /\ dec_int(int)
            /\ At(t, p1) = "." => Grouped(frac, Range(DecDigits))
            /\ p2 <= Len(t) => Grouped(Unsigned(exp), Range(DecDigits))
        \* the value is 0.m * 10^d, m without leading zero
        all == Digits(Unsigned(int)) \o Digits(frac)
        m == Drop(all, SkipWhile(all, 1, {"0"}) - 1)
        e == Drop(Digits(Unsigned(exp)), SkipWhile(Digits(Unsigned(exp)), 1, {"0"}) - 1)
        d == Len(Digits(Unsigned(int))) - (Len(all) - Len(m))
             + (IF At(exp, 1) = "-" THEN 0 - DecNumber(e) ELSE DecNumber(e))
        digit(k) == IF k <= Len(m) THEN DecValue(m[k]) ELSE 0
        differs == {k \in 1..Len(F64Infinite) : digit(k) # F64Infinite[k]}
        infinite ==
            /\ m # <<>>
            /\ IF Len(e) > 6 THEN At(exp, 1) # "-"
               ELSE \/ d > Len(F64Infinite)
                    \/ /\ d = Len(F64Infinite)
                       /\ differs = {} \/ digit(Least(differs)) > F64Infinite[Least(differs)]
        text == Digits(IF t[1] = "+" THEN Tail(t) ELSE t)
    IN  IF ~grammar THEN None
        ELSE IF ~infinite THEN Some(Ok(FloatV(text)))
        ELSE IF t[1] = "-" THEN Some(Ok(FloatV(<<"-", "i", "n", "f">>)))
        ELSE Some(Err(TomlSyntaxError))

\* a date-time token of RFC 3339: a date, a time, or a date, one of T and t,
\* a time and perhaps an offset
parse_datetime(t) ==
    LET digits(u, at) == \A k \in at : k <= Len(u) /\ IsDecDigit(u[k])
        num(u, k) == DecNumber(SubSeq(u, k, k + 1))
        year(u) == DecNumber(SubSeq(u, 1, 4))
        leap(y) == y % 4 = 0 /\ (y % 100 # 0 \/ y % 400 = 0)
        days(y, mo) ==
            IF mo = 2 THEN (IF leap(y) THEN 29 ELSE 28)
            ELSE IF mo \in {4, 6, 9, 11} THEN 30 ELSE 31
        date(u) ==
            /\ Len(u) = 10 /\ digits(u, {1, 2, 3, 4, 6, 7, 9, 10}) /\ u[5] = "-" /\ u[8] = "-"
            /\ num(u, 6) \in 1..12
            /\ num(u, 9) \in 1..days(year(u), num(u, 6))
        offset(u) ==
            \/ u = <<>> \/ u = <<"Z">> \/ u = <<"z">>
            \/ /\ Len(u) = 6 /\ u[1] \in {"+", "-"} /\ digits(u, {2, 3, 5, 6}) /\ u[4] = ":"
               /\ num(u, 2) <= 23 /\ num(u, 5) <= 59
        fraction_end(u) == IF At(u, 9) = "." THEN SkipWhile(u, 10, Range(DecDigits)) ELSE 9
        time(u, offsets) ==
            /\ digits(u, {1, 2, 4, 5, 7, 8}) /\ u[3] = ":" /\ u[6] = ":"
            /\ num(u, 1) <= 23 /\ num(u, 4) <= 59 /\ num(u, 7) <= 60
            /\ fraction_end(u) # 10
            /\ offset(SubSeq(u, fraction_end(u), Len(u)))
            /\ offsets \/ fraction_end(u) > Len(u)
    IN  \/ date(t)
        \/ time(t, FALSE)
        \/ /\ Len(t) > 11 /\ date(SubSeq(t, 1, 10)) /\ t[11] \in {"T", "t", " "}
           /\ time(SubSeq(t, 12, Len(t)), TRUE)

BareKeyChars ==
    Range(DecDigits) \cup {"_", "-"}
    \cup {"a", "b", "c", "d", "e", "f", "g", "h", "i", "j", "k", "l", "m",
          "n", "o", "p", "q", "r", "s", "t", "u", "v", "w", "x", "y", "z"}
    \cup {"A", "B", "C", "D", "E", "F", "G", "H", "I", "J", "K", "L", "M",
          "N", "O", "P", "Q", "R", "S", "T", "U", "V", "W", "X", "Y", "Z"}

\* a value that is neither a string, an array nor an inline table: the run
\* of letters, digits and _ + - . : from i on, read as a boolean, a number or
\* a date-time; a date may be followed by one blank and a time
parse_scalar(s, i) ==
    LET known(t, e, r) == IF r.some /\ r.v.ok THEN POk(r.v.val, e) ELSE PErr
        number(t, e, int) == known(t, e, IF int.some THEN int ELSE parse_float(t))
        token(t, e) ==
            IF t = <<>> THEN PErr
            ELSE IF t \in {<<"t", "r", "u", "e">>, <<"f", "a", "l", "s", "e">>}
            THEN POk(BooleanV(t = <<"t", "r", "u", "e">>), e)
            ELSE IF Unsigned(t) \in {<<"i", "n", "f">>, <<"n", "a", "n">>}
            THEN POk(FloatV(IF t[1] = "+" THEN Tail(t) ELSE t), e)
            ELSE IF parse_datetime(t) THEN POk(DatetimeV(t), e)
            ELSE number(t, e, parse_integer(t))
        timed(t, e, e2) ==
            IF At(s, e) = " " /\ e2 > e + 1 /\ parse_datetime(SubSeq(s, i, e2 - 1))
            THEN POk(DatetimeV(SubSeq(s, i, e2 - 1)), e2)
            ELSE token(t, e)
        run(e) == timed(SubSeq(s, i, e - 1), e, SkipWhile(s, e + 1, BareKeyChars \cup {"+", ".", ":"}))
    IN  run(SkipWhile(s, i, BareKeyChars \cup {"+", ".", ":"}))

\* the characters of a key as the string the table is indexed by; a
\* character written by its code point stands between a form feed and a
\* semicolon, which no code point's name holds, and a form feed is doubled,
\* so that no two keys read alike: U+1F60 followed by 0 is "\fU+1F60;0" and
\* U+1F600 is "\fU+1F600;"
RECURSIVE KeyName(_)
KeyName(chars) ==
    IF chars = <<>> THEN ""
    ELSE (IF Head(chars) = "\f" THEN "\f\f"
          ELSE IF Len(Head(chars)) > 1 THEN "\f" \o Head(chars) \o ";"
          ELSE Head(chars))
         \o KeyName(Tail(chars))

\* key: simple keys with dots between them, blanks allowed around the dots;
\* the names in order, and the position of what follows the blanks after
\* the last.  A simple key is a bare key, or a basic or literal string on
\* one line
RECURSIVE parse_key(_, _, _)
parse_key(s, i, acc) ==
    LET after(name, j) ==
            IF At(s, j) = "." THEN parse_key(s, skip_ws(s, j + 1), Append(acc, name))
            ELSE POk(Append(acc, name), j)
        key(r) == IF r.ok THEN after(KeyName(r.val), skip_ws(s, r.pos)) ELSE PErr
        bare(e) == IF e > i THEN POk(SubSeq(s, i, e - 1), e) ELSE PErr
    IN  key(IF At(s, i) \in {"\"", "'"} THEN string_body(s, i + 1, <<>>, s[i])
            ELSE bare(SkipWhile(s, i, BareKeyChars)))

\* an entry of a table while the document is read (toml_edit's Item): a
\* value; a table, implicit when neither a header nor an inline table
\* defined it, dotted when a dotted key made it; an array of tables
ItemTable(items, implicit, dotted) ==
    [item |-> "table", items |-> items, implicit |-> implicit, dotted |-> dotted]
ItemArrayOfTables(tables) == [item |-> "aot", tables |-> tables]

Put(table, key, v) ==
    [k \in DOMAIN table \cup {key} |-> IF k = key THEN v ELSE table[k]]

\* the table reached through an entry: the table itself, or the last table
\* of an array of tables
Reached(child) == IF child.item = "aot" THEN child.tables[Len(child.tables)] ELSE child

\* table t with the table reached through its entry k replaced by r's
Descended(t, k, child, r) ==
    IF ~r.ok THEN r
    ELSE IF child.item = "aot"
    THEN Ok([t EXCEPT !.items =
                Put(t.items, k, ItemArrayOfTables([child.tables EXCEPT
                                                      ![Len(child.tables)] = r.val]))])
    ELSE Ok([t EXCEPT !.items = Put(t.items, k, r.val)])

\* key = v under the dotted path in table t.  A table missing on the path is
\* made, implicit and dotted; the path may not lead through a value or
\* through a table that a header or an inline table defined; the table the
\* path ends in must have been made by a dotted key; no key is defined twice
RECURSIVE keyval_into(_, _, _, _, _)
keyval_into(t, path, key, v, descended) ==
    LET into(k, child) ==
            IF child.item = "value" \/ (child.item = "table" /\ ~child.implicit)
            THEN Err(TomlSyntaxError)
            ELSE Descended(t, k, child,
                           keyval_into(Reached(child), Tail(path), key, v, TRUE))
    IN  IF path = <<>>
        THEN IF t.dotted # descended \/ key \in DOMAIN t.items THEN Err(TomlSyntaxError)
             ELSE Ok([t EXCEPT !.items = Put(t.items, key, [item |-> "value", val |-> v])])
        ELSE into(Head(path), IF Head(path) \in DOMAIN t.items THEN t.items[Head(path)]
                              ELSE ItemTable(<<>>, TRUE, TRUE))

\* a header [path], or [[path]] when array, in table t.  A table missing on
\* the way is made, implicit; the way may not lead through a value.  [path]
\* defines a new table or one that was implicit and not dotted; [[path]]
\* starts an array of tables or adds a table to one
RECURSIVE header_into(_, _, _)
header_into(t, path, array) ==
    LET k == Head(path)
        put(item) == Ok([t EXCEPT !.items = Put(t.items, k, item)])
        here ==
            IF k \notin DOMAIN t.items
            THEN put(IF array THEN ItemArrayOfTables(<<ItemTable(<<>>, FALSE, FALSE)>>)
                     ELSE ItemTable(<<>>, FALSE, FALSE))
            ELSE IF array /\ t.items[k].item = "aot"
            THEN put(ItemArrayOfTables(Append(t.items[k].tables, ItemTable(<<>>, FALSE, FALSE))))
            ELSE IF /\ ~array /\ t.items[k].item = "table"
                    /\ t.items[k].implicit /\ ~t.items[k].dotted
            THEN put([t.items[k] EXCEPT !.implicit = FALSE])
            ELSE Err(TomlSyntaxError)
        through(child) ==
            IF child.item = "value" THEN Err(TomlSyntaxError)
            ELSE Descended(t, k, child, header_into(Reached(child), Tail(path), array))
    IN  IF Len(path) = 1 THEN here
        ELSE through(IF k \in DOMAIN t.items THEN t.items[k] ELSE ItemTable(<<>>, TRUE, FALSE))

\* key = v on a line of the section whose header was [section] or
\* [[section]], the root table when section is empty
RECURSIVE section_keyval(_, _, _, _, _)
section_keyval(t, section, path, key, v) ==
    LET through(k, child) ==
            Descended(t, k, child,
                      section_keyval(Reached(child), Tail(section), path, key, v))
    IN  IF section = <<>> THEN keyval_into(t, path, key, v, FALSE)
        ELSE through(Head(section), t.items[Head(section)])

\* the toml::Value of an entry
RECURSIVE ToValue(_)
ToValue(item) ==
    CASE item.item = "value" -> item.val
      [] item.item = "aot" -> ArrayV([k \in 1..Len(item.tables) |-> ToValue(item.tables[k])])
      [] OTHER -> TableV([k \in DOMAIN item.items |-> ToValue(item.items[k])])

\* a value; the rest of an array from its next element on; the rest of an
\* inline table from its next key on
RECURSIVE parse_value(_, _), array_rest(_, _, _), inline_rest(_, _, _)
parse_value(s, i) ==
    LET string(r) == IF r.ok THEN POk(StringV(r.val), r.pos) ELSE PErr
        braces(j) ==
            IF At(s, j) = "}" THEN POk(TableV(<<>>), j + 1)
            ELSE inline_rest(s, j, ItemTable(<<>>, FALSE, FALSE))
    IN  IF At(s, i) \in {"\"", "'"} THEN string(parse_string(s, i))
        ELSE IF At(s, i) = "[" THEN array_rest(s, skip_ws_newlines(s, i + 1), <<>>)
        ELSE IF At(s, i) = "{" THEN braces(skip_ws(s, i + 1))
        ELSE parse_scalar(s, i)

array_rest(s, i, acc) ==
    LET after(j, v) ==
            IF j = 0 THEN PErr
            ELSE IF At(s, j) = ","
            THEN array_rest(s, skip_ws_newlines(s, j + 1), Append(acc, v))
            ELSE IF At(s, j) = "]" THEN POk(ArrayV(Append(acc, v)), j + 1)
            ELSE PErr
        elem(r) == IF r.ok THEN after(skip_ws_newlines(s, r.pos), r.val) ELSE PErr
    IN  IF i = 0 THEN PErr
        ELSE IF At(s, i) = "]" THEN POk(ArrayV(acc), i + 1)
        ELSE elem(parse_value(s, i))

inline_rest(s, i, t) ==
    LET after(j, r) ==
            IF ~r.ok THEN PErr
            ELSE IF At(s, j) = "," THEN inline_rest(s, skip_ws(s, j + 1), r.val)
            ELSE IF At(s, j) = "}" THEN POk(ToValue(r.val), j + 1)
            ELSE PErr
        value(key, r) ==
            IF r.ok
            THEN after(skip_ws(s, r.pos),
                       keyval_into(t, SubSeq(key, 1, Len(key) - 1), key[Len(key)], r.val, FALSE))
            ELSE PErr
        keyed(r) ==
            IF r.ok /\ At(s, r.pos) = "=" THEN value(r.val, parse_value(s, skip_ws(s, r.pos + 1)))
            ELSE PErr
    IN  keyed(parse_key(s, i, <<>>))

\* the document from position i on, expression by expression: a header,
\* which opens a section, or key = value, which goes to the open section
RECURSIVE parse_document(_, _, _, _)
parse_document(s, i, root, section) ==
    LET next(j, r, sec) ==
            IF j = 0 \/ ~r.ok THEN Err(TomlSyntaxError) ELSE parse_document(s, j, r.val, sec)
        closed(key, j, array) ==
            IF At(s, j) = "]" /\ (array => At(s, j + 1) = "]")
            THEN next(line_rest(s, IF array THEN j + 2 ELSE j + 1),
                      header_into(root, key, array), key)
            ELSE Err(TomlSyntaxError)
        header(r, array) == IF r.ok THEN closed(r.val, r.pos, array) ELSE Err(TomlSyntaxError)
        value(key, r) ==
            IF r.ok
            THEN next(line_rest(s, r.pos),
                      section_keyval(root, section, SubSeq(key, 1, Len(key) - 1),
                                     key[Len(key)], r.val),
                      section)
            ELSE Err(TomlSyntaxError)
        keyval(r) ==
            IF r.ok /\ At(s, r.pos) = "=" THEN value(r.val, parse_value(s, skip_ws(s, r.pos + 1)))
            ELSE Err(TomlSyntaxError)
        expression(j) ==
            IF j = 0 THEN Err(TomlSyntaxError)
            ELSE IF At(s, j) = "" THEN Ok(ToValue(root))
            ELSE IF At(s, j) = "[" /\ At(s, j + 1) = "["
            THEN header(parse_key(s, skip_ws(s, j + 2), <<>>), TRUE)
            ELSE IF At(s, j) = "[" THEN header(parse_key(s, skip_ws(s, j + 1), <<>>), FALSE)
            ELSE keyval(parse_key(s, j, <<>>))
    IN  expression(skip_ws_newlines(s, i))

-----------------------------------------------------------------------------
(* read_one_collaborator_setup_toml *)

\* toml::from_str::<Value>(&toml_string)
\* a byte order mark at the head of the text is passed over
toml_from_str(f) ==
    IF f.form = "text"
    THEN parse_document(f.text, IF At(f.text, 1) = CodePoint(65279) THEN 2 ELSE 1,
                        ItemTable(<<>>, FALSE, FALSE), <<>>)
    ELSE f.parsed

\* the whole function on file f: res is what it returns, looked the keys it
\* asked of the table, value what the parser gave it
read_one_collaborator_setup_toml(f) ==
    LET extracted(toml, d) == [res |-> d.res, looked |-> d.looked, value |-> Some(toml)]
        with(parsed) ==
            IF ~parsed.ok
            THEN [res |-> Err(TomlStrError(parsed.err)), looked |-> <<>>, value |-> None]
            ELSE extracted(parsed.val, read_one_fields(parsed.val))
    IN  IF ~f.readable
        THEN [res |-> Err(IoError), looked |-> <<>>, value |-> None]
        ELSE with(toml_from_str(f))

Idle == [idle |-> TRUE]

Init ==
    /\ pc = "start"
    /\ record = Idle
    /\ file = Idle
    /\ written = Idle
    /\ toml_string = <<>>
    /\ toml_value = None
    /\ result = Idle
    /\ looked_up = <<>>
    /\ sources = <<>>
    /\ idx = 0
    /\ collaborators = <<>>
    /\ errors = <<>>
    /\ raised = <<>>
    /\ dir = "unopened"
    /\ program = "none"

\* what one call leaves behind
Returned(f, out) ==
    /\ file' = f
    /\ toml_value' = out.value
    /\ result' = out.res
    /\ looked_up' = out.looked

\* main() of deserialize_one_file_main.rs: one call on whatever file is there
ReadOne ==
    /\ pc = "start"
    /\ \E f \in FileInputs : Returned(f, read_one_collaborator_setup_toml(f))
    /\ pc' = "done"
    /\ UNCHANGED <<record, written, toml_string,
                   sources, idx, collaborators, errors, raised, dir, program>>

Next == ReadOne

Spec == Init /\ [][Next]_vars

-----------------------------------------------------------------------------
(* A record written by the encoder and read back by the single-record decoder *)

MaxTextLen == 2

\* every short text over the alphabet, the texts of main(), a line break, a
\* text with a character of two bytes and one of three (U+00E9, U+2603), a
\* line break followed by what reads as a key of the table
TextInputs ==
    SeqsUpTo({"a", "\"", "\\"}, MaxTextLen)
    \cup {Texts.Alice, Texts.key, Texts.Bob, Texts.pgp, <<"a", "\n", "b">>,
          <<"c", "a", "f", CodePoint(233), CodePoint(9731)>>,
          <<"\n">> \o KeyText("ipv4_addresses") \o <<" ", "=", " ", "[", "\n", "]", "\n">>}

\* the values of the fields: u128 0, 0x1f, the two of main(), u128::MAX;
\* ipv6 fe80::1, ::1, ::, ::ffff:10.0.0.1, 1:0:0:2::3, one without a zero;
\* u64 0, 60, the two of main(), i64::MAX, 2^63, u64::MAX
Values ==
    [salt |-> {<<>>, <<1, 15>>,
               <<1, 2, 3, 4, 5, 6, 7, 8, 9, 10, 11, 12, 13, 14, 15, 0>>,
               <<10, 11, 12, 13, 14, 15, 0, 1, 2, 3, 4, 5, 6, 7, 8, 9>>,
               [k \in 1..HexDigitsOfU128 |-> 15]},
     ipv4 |-> {<<192, 168, 1, 1>>, <<10, 0, 0, 1>>, <<0, 0, 0, 0>>, <<255, 255, 255, 255>>},
     ipv6 |-> {<<65152, 0, 0, 0, 0, 0, 0, 1>>, <<0, 0, 0, 0, 0, 0, 0, 1>>,
               <<0, 0, 0, 0, 0, 0, 0, 0>>, <<0, 0, 0, 0, 0, 65535, 2560, 1>>,
               <<1, 0, 0, 2, 0, 0, 0, 3>>, <<1, 2, 3, 4, 5, 6, 7, 43981>>},
     u64 |-> {U64(0), U64(60), U64(300), U64(1728308000), I64Max,
              <<32768, 0, 0, 0>>, <<65535, 65535, 65535, 65535>>}]

AddrLists(values) == {None} \cup {Some(a) : a \in SeqsUpTo(values, MaxAddrs)}

\* the collaborator of main() in serialize_to_toml_main.rs
MainRecord ==
    CollaboratorTomlData(Texts.Bob, <<<<1, 2, 3, 4, 5, 6, 7, 8, 9, 10, 11, 12, 13, 14, 15, 0>>,
                                     <<10, 11, 12, 13, 14, 15, 0, 1, 2, 3, 4, 5, 6, 7, 8, 9>>>>,
                         Some(<<<<192, 168, 1, 1>>, <<10, 0, 0, 1>>>>),
                         Some(<<<<65152, 0, 0, 0, 0, 0, 0, 1>>, <<0, 0, 0, 0, 0, 0, 0, 1>>>>),
                         Texts.pgp, U64(300), U64(1728308000))

RecordInputs ==
    {MainRecord}
    \* the two texts
    \cup {CollaboratorTomlData(n, <<<<1, 15>>>>, None, None, g, U64(60), U64(60)) :
             n \in TextInputs, g \in TextInputs}
    \* the salts
    \cup {CollaboratorTomlData(Texts.Alice, salts, None, None, Texts.key, U64(60), U64(60)) :
             salts \in SeqsUpTo(Values.salt, MaxSalts)}
    \* the address lists, each kind with the other absent, empty or main()'s
    \cup {CollaboratorTomlData(Texts.Alice, <<>>, v4, v6, Texts.key, U64(60), U64(60)) :
             v4 \in AddrLists(Values.ipv4),
             v6 \in {None, Some(<<>>), MainRecord.ipv6_addresses}}
    \cup {CollaboratorTomlData(Texts.Alice, <<>>, v4, v6, Texts.key, U64(60), U64(60)) :
             v4 \in {None, Some(<<>>), MainRecord.ipv4_addresses},
             v6 \in AddrLists(Values.ipv6)}
    \* the integers
    \cup {CollaboratorTomlData(Texts.Alice, <<>>, None, None, Texts.key, sync, upd) :
             sync \in Values.u64, upd \in Values.u64}

\* main() of serialize_to_toml_main.rs up to the match on the encoder's
\* result: Ok(toml_string) goes on to the write, Err(e) is printed
Serialize ==
    /\ pc = "start"
    /\ \E r \in RecordInputs :
           LET matched(out) ==
                   IF out.ok
                   THEN toml_string' = out.val /\ pc' = "serialized" /\ UNCHANGED result
                   ELSE result' = out /\ pc' = "not serialized" /\ UNCHANGED toml_string
           IN  record' = r /\ matched(serialize_collaborator_to_toml(r))
    /\ UNCHANGED <<file, written, toml_value, looked_up,
                   sources, idx, collaborators, errors, raised, dir, program>>

\* the ways File::create and write_all can fail on a string: write_all may
\* stop after any number of its bytes but all
WriteFailures(toml) ==
    {[created |-> FALSE, wrote |-> 0]}
    \cup {[created |-> TRUE, wrote |-> n] : n \in 0..(Utf8Bytes(toml) - 1)}

\* write_toml_to_file("collaborator_data.toml", ..) succeeds: main() prints
WriteFile ==
    /\ pc = "serialized"
    /\ written' = write_toml_to_file(written, toml_string,
                                     [created |-> TRUE,
                                      wrote |-> Utf8Bytes(toml_string)]).file
    /\ pc' = "written"
    /\ UNCHANGED <<record, file, toml_string, toml_value, result, looked_up,
                   sources, idx, collaborators, errors, raised, dir, program>>

\* write_toml_to_file fails in File::create or in write_all: main() prints
\* the error; the file is as the failing call left it
WriteFileFails ==
    /\ pc = "serialized"
    /\ \E io \in WriteFailures(toml_string) :
           LET left(out) == result' = out.res /\ written' = out.file
           IN  left(write_toml_to_file(written, toml_string, io))
    /\ pc' = "not written"
    /\ UNCHANGED <<record, file, toml_string, toml_value, looked_up,
                   sources, idx, collaborators, errors, raised, dir, program>>

\* the environment: no code of the repository carries "collaborator_data.toml"
\* to project_graph_data/collaborator_files_address_book/alice__collaborator.toml,
\* the path the reader opens; this step puts what was written there
PlaceInAddressBook ==
    /\ pc \in {"written", "not written"}
    /\ written # Idle
    /\ file' = written
    /\ pc' = "placed"
    /\ UNCHANGED <<record, written, toml_string, toml_value, result, looked_up,
                   sources, idx, collaborators, errors, raised, dir, program>>

\* main() of deserialize_one_file_main.rs run after the encoder's main():
\* read_one_collaborator_setup_toml("alice") on what is at its own path,
\* which is nothing unless the file was placed there
ReadBack ==
    /\ pc \in {"written", "not written", "placed"}
    /\ LET left(out) ==
               toml_value' = out.value /\ result' = out.res /\ looked_up' = out.looked
       IN  left(read_one_collaborator_setup_toml(IF file = Idle THEN Unreadable ELSE file))
    /\ pc' = "done"
    /\ UNCHANGED <<record, file, written, toml_string,
                   sources, idx, collaborators, errors, raised, dir, program>>

RoundTripNext == Serialize \/ WriteFile \/ WriteFileFails \/ PlaceInAddressBook \/ ReadBack

RoundTripSpec == Init /\ [][RoundTripNext]_vars

-----------------------------------------------------------------------------
(* Batch decoder: deserialization_from_toml_file_main.rs *)

\* the closure mapped over the salt array, with this file's error variant
parse_salt_batch(val) ==
    IF val.type = "String"
    THEN u128_from_str_radix(trim_start_matches_0x(val.s))
    ELSE Err(TomlError(<<"Invalid salt format: Expected string">>))

RECURSIVE collect_salts_batch(_, _)
collect_salts_batch(arr, acc) ==
    LET next(r) == IF r.ok THEN collect_salts_batch(Tail(arr), Append(acc, r.val)) ELSE r
    IN  IF arr = <<>> THEN Ok(acc) ELSE next(parse_salt_batch(Head(arr)))

\* the for loop of the sink-taking extract_ipv4_addresses: a bad element is
\* pushed to the errors vector and the loop goes on
RECURSIVE ipv4_loop_sink(_, _, _, _)
ipv4_loop_sink(arr, key, addresses, errs) ==
    LET next(r) ==
            IF r.ok THEN ipv4_loop_sink(Tail(arr), key, Append(addresses, r.val), errs)
            ELSE ipv4_loop_sink(Tail(arr), key, addresses,
                     Append(errs, TomlError(<<"Invalid ", key, " format: ", r.err,
                                              ". Skipping this address.">>)))
    IN  IF arr = <<>> THEN [addresses |-> addresses, errors |-> errs]
        ELSE IF Head(arr).type = "String" THEN next(parse_Ipv4Addr(Head(arr).s))
        ELSE ipv4_loop_sink(Tail(arr), key, addresses,
                 Append(errs, TomlError(<<"Invalid ", key,
                                          " format: Expected string. Skipping this address.">>)))

\* what follows the loop; res is the returned Result, errors the caller's
\* vector afterwards
after_loop_sink(l) == [res |-> none_if_empty(l.addresses), errors |-> l.errors]

extract_ipv4_addresses_sink(table, key, errs) ==
    IF IsA(Get(table, key), "Array")
    THEN after_loop_sink(ipv4_loop_sink(table[key].arr, key, <<>>, errs))
    ELSE [res |-> Ok(None), errors |-> errs]

RECURSIVE ipv6_loop_sink(_, _, _, _)
ipv6_loop_sink(arr, key, addresses, errs) ==
    LET next(r) ==
            IF r.ok THEN ipv6_loop_sink(Tail(arr), key, Append(addresses, r.val), errs)
            ELSE ipv6_loop_sink(Tail(arr), key, addresses,
                     Append(errs, TomlError(<<"Invalid ", key, " format: ", r.err,
                                              ". Skipping this address.">>)))
    IN  IF arr = <<>> THEN [addresses |-> addresses, errors |-> errs]
        ELSE IF Head(arr).type = "String" THEN next(parse_Ipv6Addr(Head(arr).s))
        ELSE ipv6_loop_sink(Tail(arr), key, addresses,
                 Append(errs, TomlError(<<"Invalid ", key,
                                          " format: Expected string. Skipping this address.">>)))

extract_ipv6_addresses_sink(table, key, errs) ==
    IF IsA(Get(table, key), "Array")
    THEN after_loop_sink(ipv6_loop_sink(table[key].arr, key, <<>>, errs))
    ELSE [res |-> Ok(None), errors |-> errs]

\* MUTANT of extract_u64_sink: the error is returned without being pushed
extract_u64_sink_not_pushing(table, key, errs) ==
    IF IsA(Get(table, key), "Integer")
    THEN IF u64_in_range(table[key].i)
         THEN [res |-> Ok(as_u64(table[key].i)), errors |-> errs]
         ELSE [res |-> Err(TomlError(<<"Invalid ", key, ": Out of range for u64">>)),
               errors |-> errs]
    ELSE [res |-> Err(TomlError(<<"Missing or invalid ", key>>)), errors |-> errs]

\* the sink-taking extract_u64: on failure the message is pushed and returned
extract_u64_sink(table, key, errs) ==
    IF IsA(Get(table, key), "Integer")
    THEN IF u64_in_range(table[key].i)
         THEN [res |-> Ok(as_u64(table[key].i)), errors |-> errs]
         ELSE [res |-> Err(TomlError(<<"Invalid ", key, ": Out of range for u64">>)),
               errors |-> Append(errs, TomlError(<<"Invalid ", key, ": Out of range for u64">>))]
    ELSE [res |-> Err(TomlError(<<"Missing or invalid ", key>>)),
          errors |-> Append(errs, TomlError(<<"Missing or invalid ", key>>))]

\* how one pass through the loop body ends: `continue` / falling off the end
\* of the body (ret = None), or a return out of the function (ret = Some)
Continue(cs, errs) == [collaborators |-> cs, errors |-> errs, ret |-> None]
Return(cs, errs, r) == [collaborators |-> cs, errors |-> errs, ret |-> Some(r)]

\* the Value::Table arm of the loop body
batch_fields(table, cs, errs) ==
    LET with_upd(salts, v4, v6, sync, upd) ==
            IF ~upd.res.ok THEN Return(cs, upd.errors, Err(upd.res.err))
            ELSE Continue(Append(cs, CollaboratorTomlData(
                                         table["user_name"].s, salts.val, v4.res.val,
                                         v6.res.val, table["gpg_key_public"].s,
                                         sync.res.val, upd.res.val)),
                          upd.errors)
        with_sync(salts, v4, v6, sync) ==
            IF ~sync.res.ok THEN Return(cs, sync.errors, Err(sync.res.err))
            ELSE with_upd(salts, v4, v6, sync,
                          extract_u64_sink(table, "updated_at_timestamp", sync.errors))
        with_v6(salts, v4, v6) ==
            IF ~IsA(Get(table, "gpg_key_public"), "String")
            THEN Continue(cs, Append(v6.errors,
                                     TomlError(<<"Missing or invalid gpg_key_public">>)))
            ELSE with_sync(salts, v4, v6,
                           extract_u64_sink(table, "sync_interval", v6.errors))
        with_v4(salts, v4) ==
            with_v6(salts, v4,
                    extract_ipv6_addresses_sink(table, "ipv6_addresses", v4.errors))
        with_salts(salts) ==
            IF ~salts.ok THEN Return(cs, errs, Err(salts.err))
            ELSE with_v4(salts, extract_ipv4_addresses_sink(table, "ipv4_addresses", errs))
    IN  IF ~IsA(Get(table, "user_name"), "String")
        THEN Continue(cs, Append(errs, TomlError(<<"Missing user_name">>)))
        ELSE IF ~IsA(Get(table, "user_salt_list"), "Array")
        THEN Continue(cs, Append(errs, TomlError(<<"Missing user_salt_list">>)))
        ELSE with_salts(collect_salts_batch(table["user_salt_list"].arr, <<>>))

\* a directory entry: the iterator item may be an Err; the path may be a
\* regular file with extension "toml" or anything else
TomlFile(f) == [entry_ok |-> TRUE, is_toml_file |-> TRUE, f |-> f]

\* MUTANT of match_parsed: the parser's error is returned with `?`
match_parsed_returning(parsed, cs, errs) ==
    IF ~parsed.ok THEN Return(cs, errs, Err(TomlError(parsed.err)))
    ELSE IF parsed.val.type # "Table"
    THEN Continue(cs, Append(errs, TomlError(<<"Invalid TOML structure">>)))
    ELSE batch_fields(parsed.val.table, cs, errs)

\* the match on toml::from_str's result
match_parsed(parsed, cs, errs) ==
    IF ~parsed.ok THEN Continue(cs, Append(errs, TomlError(parsed.err)))
    ELSE IF parsed.val.type # "Table"
    THEN Continue(cs, Append(errs, TomlError(<<"Invalid TOML structure">>)))
    ELSE batch_fields(parsed.val.table, cs, errs)

\* one pass through the body of the for loop
loop_body(entry, cs, errs) ==
    IF ~entry.entry_ok THEN Return(cs, errs, Err(IoError))
    ELSE IF ~entry.is_toml_file THEN Continue(cs, errs)
    ELSE IF ~entry.f.readable THEN Return(cs, errs, Err(IoError))
    ELSE match_parsed(toml_from_str(entry.f), cs, errs)

-----------------------------------------------------------------------------
(* deserialization_main.rs: the earlier batch decoder, whose address         *)
(* extractors collect into a Result and are followed by `?`                  *)

\* .map(..).collect::<Result<Vec<Ipv4Addr>, UmaError>>(): stops at the first Err
RECURSIVE collect_ipv4_main(_, _, _)
collect_ipv4_main(arr, key, addresses) ==
    LET next(r) ==
            IF r.ok THEN collect_ipv4_main(Tail(arr), key, Append(addresses, r.val))
            ELSE Err(TomlError(<<"Invalid ", key, " format: ", r.err>>))
    IN  IF arr = <<>> THEN Ok(addresses)
        ELSE IF Head(arr).type = "String" THEN next(parse_Ipv4Addr(Head(arr).s))
        ELSE Err(TomlError(<<"Invalid ", key, " format: Expected string">>))

\* Ok(Some(addresses)) after the `?`, whatever the length of addresses
some_collected(r) == IF r.ok THEN Ok(Some(r.val)) ELSE r

\* the errors parameter of the source is never used
extract_ipv4_addresses_main(table, key) ==
    IF IsA(Get(table, key), "Array")
    THEN some_collected(collect_ipv4_main(table[key].arr, key, <<>>))
    ELSE Ok(None)

RECURSIVE collect_ipv6_main(_, _, _)
collect_ipv6_main(arr, key, addresses) ==
    LET next(r) ==
            IF r.ok THEN collect_ipv6_main(Tail(arr), key, Append(addresses, r.val))
            ELSE Err(TomlError(<<"Invalid ", key, " format: ", r.err>>))
    IN  IF arr = <<>> THEN Ok(addresses)
        ELSE IF Head(arr).type = "String" THEN next(parse_Ipv6Addr(Head(arr).s))
        ELSE Err(TomlError(<<"Invalid ", key, " format: Expected string">>))

extract_ipv6_addresses_main(table, key) ==
    IF IsA(Get(table, key), "Array")
    THEN some_collected(collect_ipv6_main(table[key].arr, key, <<>>))
    ELSE Ok(None)

\* the Value::Table arm of the loop body of deserialization_main.rs
batch_fields_main(table, cs, errs) ==
    LET with_upd(salts, v4, v6, sync, upd) ==
            IF ~upd.res.ok THEN Return(cs, upd.errors, Err(upd.res.err))
            ELSE Continue(Append(cs, CollaboratorTomlData(
                                         table["user_name"].s, salts.val, v4.val,
                                         v6.val, table["gpg_key_public"].s,
                                         sync.res.val, upd.res.val)),
                          upd.errors)
        with_sync(salts, v4, v6, sync) ==
            IF ~sync.res.ok THEN Return(cs, sync.errors, Err(sync.res.err))
            ELSE with_upd(salts, v4, v6, sync,
                          extract_u64_sink(table, "updated_at_timestamp", sync.errors))
        with_v6(salts, v4, v6) ==
            IF ~v6.ok THEN Return(cs, errs, v6)
            ELSE IF ~IsA(Get(table, "gpg_key_public"), "String")
            THEN Continue(cs, Append(errs, TomlError(<<"Missing or invalid gpg_key_public">>)))
            ELSE with_sync(salts, v4, v6, extract_u64_sink(table, "sync_interval", errs))
        with_v4(salts, v4) ==
            IF ~v4.ok THEN Return(cs, errs, v4)
            ELSE with_v6(salts, v4, extract_ipv6_addresses_main(table, "ipv6_addresses"))
        with_salts(salts) ==
            IF ~salts.ok THEN Return(cs, errs, Err(salts.err))
            ELSE with_v4(salts, extract_ipv4_addresses_main(table, "ipv4_addresses"))
    IN  IF ~IsA(Get(table, "user_name"), "String")
        THEN Continue(cs, Append(errs, TomlError(<<"Missing user_name">>)))
        ELSE IF ~IsA(Get(table, "user_salt_list"), "Array")
        THEN Continue(cs, Append(errs, TomlError(<<"Missing user_salt_list">>)))
        ELSE with_salts(collect_salts_batch(table["user_salt_list"].arr, <<>>))

\* one pass through the body of the for loop of deserialization_main.rs
loop_body_main(entry, cs, errs) ==
    LET matched(parsed) ==
            IF ~parsed.ok THEN Continue(cs, Append(errs, TomlError(parsed.err)))
            ELSE IF parsed.val.type # "Table"
            THEN Continue(cs, Append(errs, TomlError(<<"Invalid TOML structure">>)))
            ELSE batch_fields_main(parsed.val.table, cs, errs)
    IN  IF ~entry.entry_ok THEN Return(cs, errs, Err(IoError))
        ELSE IF ~entry.is_toml_file THEN Continue(cs, errs)
        ELSE IF ~entry.f.readable THEN Return(cs, errs, Err(IoError))
        ELSE matched(toml_from_str(entry.f))

-----------------------------------------------------------------------------
(* u128_array_only.rs: the batch decoder cut down to the two fields          *)
(* user_name and user_salt_list                                              *)

\* the Value::Table arm of the loop body: no other key is asked of the table
batch_fields_u128(table, cs, errs) ==
    LET with_salts(salts) ==
            IF ~salts.ok THEN Return(cs, errs, Err(salts.err))
            ELSE Continue(Append(cs, [user_name |-> table["user_name"].s,
                                      user_salt_list |-> salts.val]),
                          errs)
    IN  IF ~IsA(Get(table, "user_name"), "String")
        THEN Continue(cs, Append(errs, TomlError(<<"Missing user_name">>)))
        ELSE IF ~IsA(Get(table, "user_salt_list"), "Array")
        THEN Continue(cs, Append(errs, TomlError(<<"Missing user_salt_list">>)))
        ELSE with_salts(collect_salts_batch(table["user_salt_list"].arr, <<>>))

\* one pass through the body of the for loop of u128_array_only.rs
loop_body_u128(entry, cs, errs) ==
    LET matched(parsed) ==
            IF ~parsed.ok THEN Continue(cs, Append(errs, TomlError(parsed.err)))
            ELSE IF parsed.val.type # "Table"
            THEN Continue(cs, Append(errs, TomlError(<<"Invalid TOML structure">>)))
            ELSE batch_fields_u128(parsed.val.table, cs, errs)
    IN  IF ~entry.entry_ok THEN Return(cs, errs, Err(IoError))
        ELSE IF ~entry.is_toml_file THEN Continue(cs, errs)
        ELSE IF ~entry.f.readable THEN Return(cs, errs, Err(IoError))
        ELSE matched(toml_from_str(entry.f))

-----------------------------------------------------------------------------
(* read_a_collaborator_setup_toml as a loop over the directory *)

\* the three source files that hold a read_a_collaborator_setup_toml
Programs == {"deserialization_from_toml_file_main", "deserialization_main", "u128_array_only"}

MaxSources == 3

Strings(texts) == Some(ArrayV([k \in 1..Len(texts) |-> StringV(texts[k])]))

ValidTable == MkTable(Good.name, Good.salts, Strings(<<Texts.ip_10_0_0_1>>), Strings(<<Texts.loopback6>>),
                      Good.gpg, Good.int, Good.int)

BatchTables ==
    {ValidTable,
     \* valid, no address keys
     MkTable(Good.name, Good.salts, None, None, Good.gpg, Good.int, Good.int),
     \* valid but for one unparseable address
     MkTable(Good.name, Good.salts, Strings(<<Texts.ip_192_168_1_1, Texts.not_an_ip>>), None,
             Good.gpg, Good.int, Good.int),
     \* no user_name
     MkTable(None, Good.salts, None, None, Good.gpg, Good.int, Good.int),
     \* no user_salt_list
     MkTable(Good.name, None, None, None, Good.gpg, Good.int, Good.int),
     \* a salt that is not hexadecimal
     MkTable(Good.name, Strings(<<Texts.x1f, Texts.xZZ>>), None, None,
             Good.gpg, Good.int, Good.int),
     \* an unparseable address, then no gpg_key_public
     MkTable(Good.name, Good.salts, None, Strings(<<Texts.not_an_ip>>), None, Good.int, Good.int),
     \* sync_interval = -1
     MkTable(Good.name, Good.salts, None, None, Good.gpg, Some(IntegerV(MinusOne)), Good.int),
     \* no updated_at_timestamp
     MkTable(Good.name, Good.salts, None, None, Good.gpg, Good.int, None),
     \* a salt that is not a string
     MkTable(Good.name, Some(ArrayV(<<StringV(Texts.x1f), IntegerV(U64(5))>>)), None, None,
             Good.gpg, Good.int, Good.int),
     \* sync_interval a string
     MkTable(Good.name, Good.salts, None, None, Good.gpg, Some(StringV(<<"6", "0">>)),
             Good.int),
     \* valid but for address arrays mixing strings that parse, strings that
     \* do not and integers
     MkTable(Good.name, Good.salts,
             Some(ArrayV(<<StringV(Texts.not_an_ip), StringV(Texts.ip_10_0_0_1),
                           IntegerV(U64(5)), StringV(Texts.ip_192_168_1_1)>>)),
             Some(ArrayV(<<IntegerV(U64(5)), StringV(Texts.loopback6)>>)),
             Good.gpg, Good.int, Good.int),
     \* gpg_key_public not a string
     MkTable(Good.name, Good.salts, Strings(<<Texts.ip_10_0_0_1>>), None,
             Some(BooleanV(TRUE)), Good.int, Good.int)}

BatchEntries ==
    {[entry_ok |-> FALSE], [entry_ok |-> TRUE, is_toml_file |-> FALSE], TomlFile(Unreadable), TomlFile(FileOfTree(Err(TomlSyntaxError)))}
    \cup {TomlFile(FileOfTree(Ok(TableV(t)))) : t \in BatchTables}

\* MUTANT of OpenDirFails: a directory that cannot be opened reads as empty
OpenDirFails_as_empty ==
    /\ pc = "start"
    /\ dir' = "failed"
    /\ result' = Ok([collaborators |-> collaborators, errors |-> errors])
    /\ pc' = "done"
    /\ \E p \in Programs : program' = p
    /\ UNCHANGED <<record, file, written, toml_string, toml_value, looked_up,
                   sources, idx, collaborators, errors, raised>>

\* fs::read_dir(dir_path)? fails
OpenDirFails ==
    /\ pc = "start"
    /\ dir' = "failed"
    /\ result' = Err(IoError)
    /\ pc' = "done"
    /\ \E p \in Programs : program' = p
    /\ UNCHANGED <<record, file, written, toml_string, toml_value, looked_up,
                   sources, idx, collaborators, errors, raised>>

\* fs::read_dir(dir_path)? yields the directory's entries
OpenDir ==
    /\ pc = "start"
    /\ \E ss \in SeqsUpTo(BatchEntries, MaxSources) : sources' = ss
    /\ dir' = "opened"
    /\ pc' = "loop"
    /\ \E p \in Programs : program' = p
    /\ UNCHANGED <<record, file, written, toml_string, toml_value, result, looked_up,
                   idx, collaborators, errors, raised>>

\* the errors an iteration constructed: those pushed, then the one returned
NewlyRaised(out, before) ==
    SubSeq(out.errors, Len(before) + 1, Len(out.errors))
    \o (IF out.ret.some THEN <<out.ret.v.err>> ELSE <<>>)

\* MUTANT of Passed: a new record is put in front of the collected ones
Passed_prepending(out) ==
    /\ collaborators' = IF Len(out.collaborators) > Len(collaborators)
                        THEN <<out.collaborators[Len(out.collaborators)]>> \o collaborators
                        ELSE out.collaborators
    /\ errors' = out.errors
    /\ raised' = raised \o NewlyRaised(out, errors)
    /\ IF out.ret.some
       THEN result' = out.ret.v /\ pc' = "done"
       ELSE UNCHANGED <<result, pc>>

\* what one pass through the loop body leaves behind
Passed(out) ==
    /\ collaborators' = out.collaborators
    /\ errors' = out.errors
    /\ raised' = raised \o NewlyRaised(out, errors)
    /\ IF out.ret.some
       THEN result' = out.ret.v /\ pc' = "done"
       ELSE UNCHANGED <<result, pc>>

\* one iteration of the for loop of deserialization_from_toml_file_main.rs,
\* on the next entry
LoopBody ==
    /\ pc = "loop"
    /\ program = "deserialization_from_toml_file_main"
    /\ idx < Len(sources)
    /\ Passed(loop_body(sources[idx + 1], collaborators, errors))
    /\ idx' = idx + 1
    /\ UNCHANGED <<record, file, written, toml_string, toml_value, looked_up,
                   sources, dir, program>>

\* one iteration of the for loop of deserialization_main.rs
LoopBodyMain ==
    /\ pc = "loop"
    /\ program = "deserialization_main"
    /\ idx < Len(sources)
    /\ Passed(loop_body_main(sources[idx + 1], collaborators, errors))
    /\ idx' = idx + 1
    /\ UNCHANGED <<record, file, written, toml_string, toml_value, looked_up,
                   sources, dir, program>>

\* one iteration of the for loop of u128_array_only.rs
LoopBodyU128 ==
    /\ pc = "loop"
    /\ program = "u128_array_only"
    /\ idx < Len(sources)
    /\ Passed(loop_body_u128(sources[idx + 1], collaborators, errors))
    /\ idx' = idx + 1
    /\ UNCHANGED <<record, file, written, toml_string, toml_value, looked_up,
                   sources, dir, program>>

\* the iterator is exhausted: Ok((collaborators, errors))
ReturnOk ==
    /\ pc = "loop"
    /\ idx = Len(sources)
    /\ result' = Ok([collaborators |-> collaborators, errors |-> errors])
    /\ pc' = "done"
    /\ UNCHANGED <<record, file, written, toml_string, toml_value, looked_up,
                   sources, idx, collaborators, errors, raised, dir, program>>

BatchNext == OpenDirFails \/ OpenDir \/ LoopBody \/ LoopBodyMain \/ LoopBodyU128 \/ ReturnOk

BatchSpec == Init /\ [][BatchNext]_vars

-----------------------------------------------------------------------------
(* Properties of the single-record decoder, checked under Spec *)

\* the call has returned and the parser had given it a table
DecodedATable == pc = "done" /\ toml_value.some /\ toml_value.v.type = "Table"

TheTable == toml_value.v.table

\* the positions of FieldOrder whose extractor fails on table t
FailingFields(t) == {k \in 1..Len(FieldOrder) : ~field_of_one(t, k).ok}

\* C2: the single-record decoder checks the fields in the order user_name,
\* user_salt_list, ipv4_addresses, ipv6_addresses, gpg_key_public,
\* sync_interval, updated_at_timestamp and returns on the first failure:
\* the error reported is the one of the earliest failing field, no key
\* after that field is examined, and no record is returned
C2_FailFastInFieldOrder ==
    DecodedATable /\ FailingFields(TheTable) # {} =>
        /\ ~result.ok
        /\ result.err = field_of_one(TheTable, Least(FailingFields(TheTable))).err
        /\ looked_up = SubSeq(FieldOrder, 1, Least(FailingFields(TheTable)))
        /\ "val" \notin DOMAIN result

\* a table with two failing fields, the first of them not user_name, whose
\* errors differ, decoded to the first one's error
C2_Witness ==
    /\ DecodedATable
    /\ Cardinality(FailingFields(TheTable)) >= 2
    /\ Least(FailingFields(TheTable)) > 1
    /\ \E k \in FailingFields(TheTable) :
           field_of_one(TheTable, k).err # result.err
    /\ ~result.ok
    /\ Len(looked_up) = Least(FailingFields(TheTable))

RequiredKeys == {"user_name", "user_salt_list", "gpg_key_public",
                 "sync_interval", "updated_at_timestamp"}

\* the error each extractor gives for its key when the key is not there
MissingField(key) ==
    CASE key = "user_name" -> TomlStrError(<<"Missing user_name">>)
      [] key = "user_salt_list" -> TomlStrError(<<"Missing user_salt_list">>)
      [] key = "gpg_key_public" -> TomlStrError(<<"Missing or invalid gpg_key_public">>)
      [] OTHER -> TomlStrError(<<"Missing or invalid ", key>>)

AbsentRequiredKeys(t) == {k \in 1..Len(FieldOrder) :
                            FieldOrder[k] \in RequiredKeys /\ FieldOrder[k] \notin DOMAIN t}

\* C5 as stated: whenever a required key is absent from the table, decoding
\* fails with a missing-field kind of error
C5_AsStated ==
    DecodedATable /\ AbsentRequiredKeys(TheTable) # {} =>
        /\ ~result.ok
        /\ \E key \in RequiredKeys : result.err = MissingField(key)

\* C5: whenever a required key (user_name, user_salt_list, gpg_key_public,
\* sync_interval, updated_at_timestamp) is absent from the table, decoding
\* fails and returns no record; the error is the missing-field error of
\* that key when every field before it in the field order is extracted
\* without error
C5_MissingRequiredKey ==
    DecodedATable =>
        \A k \in AbsentRequiredKeys(TheTable) :
            /\ ~result.ok
            /\ "val" \notin DOMAIN result
            /\ (\A j \in 1..(k - 1) : field_of_one(TheTable, j).ok)
                   => result.err = MissingField(FieldOrder[k])

\* a table without sync_interval whose earlier fields are all fine, decoded
\* to the missing-field error of sync_interval
C5_Witness ==
    /\ DecodedATable
    /\ "sync_interval" \notin DOMAIN TheTable
    /\ \A j \in 1..5 : field_of_one(TheTable, j).ok
    /\ result = Err(MissingField("sync_interval"))

\* the salt array of table t, or the empty sequence when there is none
SaltArray(t) == IF IsA(Get(t, "user_salt_list"), "Array") THEN t["user_salt_list"].arr
                ELSE <<>>

\* text s is not base 16 once every leading "0x" is stripped
NotBase16(s) ==
    \/ trim_start_matches_0x(s) = <<>>
    \/ \E k \in 1..Len(trim_start_matches_0x(s)) : ~IsHexDigit(trim_start_matches_0x(s)[k])

\* the digits of a stripped salt text after the one sign the parser allows
AfterSign(t) == IF t # <<>> /\ t[1] = "+" THEN Tail(t) ELSE t

\* u128::from_str_radix(_, 16) rejects s once every leading "0x" is stripped:
\* nothing is left, or something other than a hex digit is there
RejectedAsHex(s) ==
    \/ AfterSign(trim_start_matches_0x(s)) = <<>>
    \/ \E k \in 1..Len(AfterSign(trim_start_matches_0x(s))) :
           ~IsHexDigit(AfterSign(trim_start_matches_0x(s))[k])

\* C6 as stated: a salt array holding a string that is not base 16 after
\* prefix stripping makes the decode fail with a ParseIntError
C6_AsStated ==
    DecodedATable
    /\ (\E k \in 1..Len(SaltArray(TheTable)) :
           /\ SaltArray(TheTable)[k].type = "String"
           /\ NotBase16(SaltArray(TheTable)[k].s))
    => ~result.ok /\ result.err.variant = "ParseIntError"

RejectedSalts(t) == {k \in 1..Len(SaltArray(t)) :
                        /\ SaltArray(t)[k].type = "String"
                        /\ RejectedAsHex(SaltArray(t)[k].s)}

\* C6: a salt array holding a string the base-16 parser rejects after prefix
\* stripping makes the single-record decode reject the whole record (the
\* element is not dropped, no record is returned); the error is the integer
\* parse error (ParseIntError) when user_name is a String and every element
\* before the first such string is a String
C6_MalformedSaltRejectsRecord ==
    DecodedATable /\ RejectedSalts(TheTable) # {} =>
        /\ ~result.ok
        /\ "val" \notin DOMAIN result
        /\ (/\ user_name_field(TheTable).ok
            /\ \A j \in 1..(Least(RejectedSalts(TheTable)) - 1) :
                   SaltArray(TheTable)[j].type = "String")
               => result.err.variant = "ParseIntError"

\* a valid salt followed by "0xZZ" in an otherwise valid table, decoded to
\* the parse error of the second element
C6_Witness ==
    /\ DecodedATable
    /\ Len(SaltArray(TheTable)) = 2
    /\ RejectedSalts(TheTable) = {2}
    /\ result = Err(ParseIntError("InvalidDigit"))

IntegerKeys == {"sync_interval", "updated_at_timestamp"}

\* limbs i, read as a two's-complement 64-bit integer, lie in 0 ..= 2^63 - 1
InRangeOfU63(i) ==
    /\ i[1] \in 0..32767
    /\ \A k \in 2..4 : i[k] \in 0..(LimbBase - 1)

\* limbs i are those of a negative integer
Negative(i) == i[1] < 0

\* C7: extract_u64 accepts an Integer i exactly when 0 <= i <= i64::MAX and
\* then returns the unsigned value equal to i; a negative i gives the error
\* "Invalid <key>: Out of range for u64" (in the batch variant the same error
\* is also what is appended to the error list); every decoded record has
\* both integer fields within 0 ..= 2^63 - 1
C7_U64RangeCheck ==
    DecodedATable =>
        /\ \A key \in IntegerKeys :
               IsA(Get(TheTable, key), "Integer") =>
                   /\ extract_u64(TheTable, key).ok <=> InRangeOfU63(TheTable[key].i)
                   /\ extract_u64(TheTable, key).ok
                          => extract_u64(TheTable, key).val = TheTable[key].i
                   /\ Negative(TheTable[key].i)
                          => extract_u64(TheTable, key)
                                = Err(TomlStrError(<<"Invalid ", key,
                                                     ": Out of range for u64">>))
                   /\ extract_u64_sink(TheTable, key, <<>>).res.ok
                          <=> InRangeOfU63(TheTable[key].i)
                   /\ Negative(TheTable[key].i)
                          => extract_u64_sink(TheTable, key, <<>>).errors
                                = <<TomlError(<<"Invalid ", key,
                                                ": Out of range for u64">>)>>
        /\ result.ok => /\ InRangeOfU63(result.val.sync_interval)
                        /\ InRangeOfU63(result.val.updated_at_timestamp)

\* sync_interval = -1 in a table whose earlier fields are fine, decoded to
\* the out-of-range error
C7_Witness ==
    /\ DecodedATable
    /\ IsA(Get(TheTable, "sync_interval"), "Integer")
    /\ TheTable["sync_interval"].i = MinusOne
    /\ result = Err(TomlStrError(<<"Invalid ", "sync_interval", ": Out of range for u64">>))

\* the address array of table t under key, or the empty sequence
AddrArray(t, key) == IF IsA(Get(t, key), "Array") THEN t[key].arr ELSE <<>>

\* element e of an address array parses as an address of the key's family
Parseable(e, key) ==
    /\ e.type = "String"
    /\ IF key = "ipv4_addresses" THEN parse_Ipv4Addr(e.s).ok ELSE parse_Ipv6Addr(e.s).ok

\* the parsed addresses of the parseable elements of arr, in order
RECURSIVE ParsedOnes(_, _)
ParsedOnes(arr, key) ==
    IF arr = <<>> THEN <<>>
    ELSE IF Parseable(Head(arr), key)
    THEN <<IF key = "ipv4_addresses" THEN parse_Ipv4Addr(Head(arr).s).val
           ELSE parse_Ipv6Addr(Head(arr).s).val>> \o ParsedOnes(Tail(arr), key)
    ELSE ParsedOnes(Tail(arr), key)

AddressKeys == {"ipv4_addresses", "ipv6_addresses"}

\* every field of t other than key is extracted without error
OtherwiseValid(t, key) ==
    \A k \in 1..Len(FieldOrder) : FieldOrder[k] # key => field_of_one(t, k).ok

\* C8: an address array mixing parseable and unparseable strings, in an
\* otherwise valid table, decodes successfully and the field holds exactly
\* the parseable addresses in their order
C8_SkipsUnparseableAddresses ==
    DecodedATable =>
        \A key \in AddressKeys :
            (/\ OtherwiseValid(TheTable, key)
             /\ \A k \in 1..Len(AddrArray(TheTable, key)) :
                    AddrArray(TheTable, key)[k].type = "String"
             /\ \E k \in 1..Len(AddrArray(TheTable, key)) :
                    Parseable(AddrArray(TheTable, key)[k], key)
             /\ \E k \in 1..Len(AddrArray(TheTable, key)) :
                    ~Parseable(AddrArray(TheTable, key)[k], key))
            => /\ result.ok
               /\ result.val[key] = Some(ParsedOnes(AddrArray(TheTable, key), key))

\* C9: a present address array with no parseable element, in an otherwise
\* valid table, decodes successfully with the field absent (None), as when
\* the key is not there
C9_NoParseableAddressIsNone ==
    DecodedATable =>
        \A key \in AddressKeys :
            (/\ OtherwiseValid(TheTable, key)
             /\ AddrArray(TheTable, key) # <<>>
             /\ \A k \in 1..Len(AddrArray(TheTable, key)) :
                    /\ AddrArray(TheTable, key)[k].type = "String"
                    /\ ~Parseable(AddrArray(TheTable, key)[k], key))
            => /\ result.ok
               /\ result.val[key] = None

-----------------------------------------------------------------------------
(* Properties of the batch decoder, checked under BatchSpec *)

\* entry e is a .toml file whose content could be read
ReadableSource(e) == e.entry_ok /\ e.is_toml_file /\ e.f.readable

\* C3: once the directory is open, no failure of a single source (syntax
\* error, failing field) makes the batch call fail: with every source
\* readable, the call gets through all of them and returns the pair
\* (results, errors)
C3_OneSourceNeverAbortsBatch ==
    (/\ pc = "done"
     /\ dir = "opened"
     /\ \A k \in 1..Len(sources) : ReadableSource(sources[k]))
    => /\ result.ok
       /\ idx = Len(sources)

\* source e holds a table every field of which is extracted without error
FullyValidSource(e) ==
    /\ toml_from_str(e.f).ok
    /\ FailingFields(toml_from_str(e.f).val.table) = {}

\* source e is not TOML, or holds a table whose address arrays are fine and
\* one of whose required fields fails
MalformedSource(e) ==
    \/ ~toml_from_str(e.f).ok
    \/ /\ FailingFields(toml_from_str(e.f).val.table) # {}
       /\ \A k \in FailingFields(toml_from_str(e.f).val.table) :
              FieldOrder[k] \in RequiredKeys

MalformedOnes == {k \in 1..Len(sources) : MalformedSource(sources[k])}

\* C4: of n readable sources, k malformed and n - k fully valid, the batch
\* decoder of deserialization_from_toml_file_main.rs returns n - k records
\* and k errors, wherever the malformed ones are
C4_CountsOfResultsAndErrors ==
    (/\ program = "deserialization_from_toml_file_main"
     /\ pc = "done"
     /\ dir = "opened"
     /\ \A k \in 1..Len(sources) :
            /\ ReadableSource(sources[k])
            /\ FullyValidSource(sources[k]) \/ MalformedSource(sources[k]))
    => /\ result.ok
       /\ Len(result.val.collaborators) = Len(sources) - Cardinality(MalformedOnes)
       /\ Len(result.val.errors) = Cardinality(MalformedOnes)

\* C10: when the directory cannot be opened the batch decoder returns the
\* I/O error at once: no source is read and neither a results sequence nor
\* an errors sequence is returned
C10_DirOpenFailure ==
    dir = "failed" =>
        /\ pc = "done"
        /\ result = Err(IoError)
        /\ "val" \notin DOMAIN result
        /\ idx = 0
        /\ sources = <<>>
        /\ collaborators = <<>> /\ errors = <<>> /\ raised = <<>>

\* the call has returned after read_dir failed
C10_Witness == dir = "failed" /\ pc = "done" /\ ~result.ok

-----------------------------------------------------------------------------
(* Properties of the round trip, checked under RoundTripSpec *)

\* the record was written and the file read back
ReadBackDone ==
    pc = "done" /\ "user_name" \in DOMAIN record /\ file = FileOfText(toml_string)

\* both integers of r are in 0 ..= i64::MAX
ValidRecord(r) == InRangeOfU63(r.sync_interval) /\ InRangeOfU63(r.updated_at_timestamp)

\* C1 as stated: every valid record, whatever its texts and whether its
\* address lists are absent or any sequence, is read back equal to itself
C1_AsStated == ReadBackDone /\ ValidRecord(record) => result = Ok(record)

\* text t holds no quotation mark, backslash or control character
PlainText(t) == \A k \in 1..Len(t) : t[k] \notin {"\"", "\\", "\t"} \cup ControlChars

\* C1: a valid record whose user_name and gpg_key_public hold no quotation
\* mark, backslash or control character and whose address lists are each
\* absent or non-empty is read back, from the file the encoder wrote, equal
\* to itself in every field, salts in the same order
C1_RoundTrip ==
    (/\ ReadBackDone
     /\ ValidRecord(record)
     /\ PlainText(record.user_name) /\ PlainText(record.gpg_key_public)
     /\ record.ipv4_addresses # Some(<<>>) /\ record.ipv6_addresses # Some(<<>>))
    => result = Ok(record)

\* the collaborator of main(), with two salts and both address lists, read
\* back equal to itself
C1_Witness ==
    /\ ReadBackDone
    /\ record = MainRecord
    /\ result.ok
    /\ result.val.user_salt_list = <<MainRecord.user_salt_list[1], MainRecord.user_salt_list[2]>>
    /\ result.val = record


-----------------------------------------------------------------------------
(* Properties of the batch decoder's error reporting, checked under BatchSpec *)

\* error e reaches the caller: it is the returned error, or an entry of the
\* returned errors sequence
Observable(e) ==
    IF result.ok THEN e \in Range(result.val.errors) ELSE e = result.err

\* C11: no error is silently dropped: when the batch call has returned, every
\* error raised while a source was processed (pushed to the accumulator or
\* returned by an extractor) is the call's returned error or an entry of the
\* returned errors sequence
C11_NoErrorSilentlyDropped ==
    pc = "done" => \A k \in 1..Len(raised) : Observable(raised[k])


-----------------------------------------------------------------------------
(* Properties of the encoder, checked under RoundTripSpec *)

\* the encoder has been handed a record
Encoded == record # Idle /\ pc # "not serialized"

\* where the lines of a text begin
LineStarts(text) == {1} \cup {j + 1 : j \in {i \in 1..Len(text) : text[i] = "\n"}}

\* some line of the text begins with the characters of pattern
HasLine(text, pattern) ==
    \E i \in LineStarts(text) :
        /\ i + Len(pattern) - 1 <= Len(text)
        /\ SubSeq(text, i, i + Len(pattern) - 1) = pattern

\* the text assigns the key: a line begins with `key = `
EmitsKey(text, key) == HasLine(text, KeyText(key) \o <<" ", "=", " ">>)

\* the text holds the key as an array without entries
RendersEmptyArray(text, key) ==
    HasLine(text, KeyText(key) \o <<" ", "=", " ", "[", "\n", "]", "\n">>)

\* the text holds no line break
OneLine(text) == "\n" \notin Range(text)

\* C12 as stated: the encoder emits an address key if and only if the
\* record's list has a value, and never renders an address key as an empty
\* array
C12_AsStated ==
    Encoded =>
        \A key \in AddressKeys :
            /\ EmitsKey(toml_string, key) <=> record[key].some
            /\ ~RendersEmptyArray(toml_string, key)

\* C12: for a record whose two texts hold no line break, the encoder emits
\* an address key if and only if the list has a value; without a value no
\* line of the output assigns the key; the key is rendered as an empty array
\* exactly when the list is present and empty
C12_AddressKeyIffSome ==
    (Encoded /\ OneLine(record.user_name) /\ OneLine(record.gpg_key_public)) =>
        \A key \in AddressKeys :
            /\ EmitsKey(toml_string, key) <=> record[key].some
            /\ RendersEmptyArray(toml_string, key) <=> record[key] = Some(<<>>)

\* a record with one list absent and the other holding addresses was encoded
C12_Witness ==
    /\ pc = "serialized"
    /\ record.ipv4_addresses = None
    /\ record.ipv6_addresses.some /\ record.ipv6_addresses.v # <<>>
    /\ EmitsKey(toml_string, "ipv6_addresses")
    /\ ~EmitsKey(toml_string, "ipv4_addresses")


\* C13: in-memory encoding never fails: for every record the encoder returns
\* Ok with a text, which is what main() then holds, and the only error the
\* encoding entry point ends with is the I/O error of write_toml_to_file
C13_EncodingNeverFails ==
    /\ pc # "not serialized"
    /\ record # Idle =>
           /\ serialize_collaborator_to_toml(record).ok
           /\ toml_string = serialize_collaborator_to_toml(record).val
    /\ pc \in {"serialized", "written"} => result = Idle
    /\ pc = "not written" => result = Err(IoError)

\* both ends of the write step were reached after an encoding
C13_Witness ==
    /\ pc = "not written"
    /\ record = MainRecord
    /\ toml_string # <<>>
    /\ ~result.ok


\* the value the table parser reads after `user_salt_list = ` in the text
WrittenSalts(text) ==
    LET pattern == KeyText("user_salt_list") \o <<" ", "=", " ">>
        from(i) == parse_value(text, i + Len(pattern))
    IN  from(Least({i \in LineStarts(text) :
                       /\ i + Len(pattern) - 1 <= Len(text)
                       /\ SubSeq(text, i, i + Len(pattern) - 1) = pattern}))

\* text s is "0x" followed by the lower-case hexadecimal digits of salt
RendersSalt(s, salt) ==
    /\ Len(s) >= 3
    /\ s[1] = "0" /\ s[2] = "x"
    /\ \A k \in 3..Len(s) : s[k] \in Range(LowerHex)
    /\ [k \in 1..Len(s) - 2 |-> HexValue(s[k + 2])] = (IF salt = <<>> THEN <<0>> ELSE salt)

\* the strings of arr with every hexadecimal digit after "0x" in upper case
UpperCased(arr) ==
    [k \in 1..Len(arr) |->
        StringV(<<"0", "x">> \o [j \in 1..Len(arr[k].s) - 2 |->
                                    UpperHex[HexValue(arr[k].s[j + 2]) + 1]])]

\* C14: the encoder writes one array entry per salt in the record's order,
\* each the quoted string "0x" followed by the salt's lower-case hexadecimal
\* digits; the hex-u128-list extractor of either decoder returns from those
\* strings the same salts in the same order, and does so too when the
\* hexadecimal digits are put in upper case
C14_SaltsRoundTrip ==
    Encoded =>
        LET holds(w, salts) ==
                /\ w.ok /\ w.val.type = "Array"
                /\ Len(w.val.arr) = Len(salts)
                /\ \A k \in 1..Len(salts) :
                       /\ w.val.arr[k].type = "String"
                       /\ RendersSalt(w.val.arr[k].s, salts[k])
                /\ collect_salts(w.val.arr, <<>>) = Ok(salts)
                /\ collect_salts_batch(w.val.arr, <<>>) = Ok(salts)
                /\ collect_salts(UpperCased(w.val.arr), <<>>) = Ok(salts)
                /\ collect_salts_batch(UpperCased(w.val.arr), <<>>) = Ok(salts)
        IN  holds(WrittenSalts(toml_string), record.user_salt_list)

\* the two salts of main(), which have digits a to f, were written and read
\* back in their order
C14_Witness ==
    /\ pc = "done"
    /\ record = MainRecord
    /\ result.ok
    /\ result.val.user_salt_list = MainRecord.user_salt_list
    /\ UpperCased(WrittenSalts(toml_string).val.arr) # WrittenSalts(toml_string).val.arr


-----------------------------------------------------------------------------
(* Properties of the records both decoders construct, checked under Spec on *)
(* the table the single-record reader was given                             *)

\* the records the batch decoder's loop body appends for a source holding
\* table t
BatchRecords(t) == batch_fields(t, <<>>, <<>>).collaborators

\* the user_name of table t is the empty string
EmptyUserName(t) == IsA(Get(t, "user_name"), "String") /\ t["user_name"].s = <<>>

\* C15 as stated: a table whose user_name is the empty string is rejected,
\* so every record a decoder produces has a non-empty user_name
C15_AsStated ==
    DecodedATable =>
        /\ EmptyUserName(TheTable) => ~result.ok /\ BatchRecords(TheTable) = <<>>
        /\ result.ok => result.val.user_name # <<>>
        /\ \A k \in 1..Len(BatchRecords(TheTable)) :
               BatchRecords(TheTable)[k].user_name # <<>>

\* C15: every record a decoder produces has as user_name the very String
\* stored under the key, which may be empty: a table whose user_name is
\* absent or not a String is rejected, and a table whose user_name is a
\* String, the empty one included, and whose other fields are extracted
\* without error yields a record
C15_UserNameIsTheStringAtTheKey ==
    DecodedATable =>
        /\ ~IsA(Get(TheTable, "user_name"), "String") =>
               ~result.ok /\ BatchRecords(TheTable) = <<>>
        /\ result.ok => result.val.user_name = TheTable["user_name"].s
        /\ \A k \in 1..Len(BatchRecords(TheTable)) :
               BatchRecords(TheTable)[k].user_name = TheTable["user_name"].s
        /\ (IsA(Get(TheTable, "user_name"), "String")
            /\ OtherwiseValid(TheTable, "user_name")) =>
               result.ok /\ Len(BatchRecords(TheTable)) = 1

\* a table whose user_name is the empty string was decoded into a record
C15_Witness ==
    /\ DecodedATable
    /\ EmptyUserName(TheTable)
    /\ result.ok /\ result.val.user_name = <<>>
    /\ Len(BatchRecords(TheTable)) = 1


-----------------------------------------------------------------------------
(* Properties of the batch decoder's loop, checked under BatchSpec *)

\* reading the directory, one of the entries visited or the content of a
\* matched file failed
ReadFailed ==
    \/ dir = "failed"
    \/ \E k \in 1..idx :
           \/ ~sources[k].entry_ok
           \/ sources[k].is_toml_file /\ ~sources[k].f.readable

\* C16: the batch call returns Err exactly when reading the directory, a
\* directory entry or the content of a matched .toml file failed; in every
\* other case it returns Ok with the records and the errors collected
C16_ErrOnlyOnReadFailure ==
    pc = "done" =>
        /\ ~result.ok <=> ReadFailed
        /\ ~ReadFailed =>
               result = Ok([collaborators |-> collaborators, errors |-> errors])

\* this step is one pass of the loop body, over the source Current
Stepping == pc = "loop" /\ idx' = idx + 1

Current == sources[idx + 1]

\* entry e is a readable .toml file holding a table
HoldsTable(e) ==
    /\ ReadableSource(e)
    /\ toml_from_str(e.f).ok
    /\ toml_from_str(e.f).val.type = "Table"

TableOf(e) == toml_from_str(e.f).val.table

\* the elements of the salt array of t that are not strings or that the
\* base-16 parser rejects
MalformedSalts(t) ==
    {k \in 1..Len(SaltArray(t)) : SaltArray(t)[k].type # "String"} \cup RejectedSalts(t)

\* C17: in the batch decoder a source whose salt array holds a malformed
\* element (and whose user_name is a String, so that the salts are looked
\* at) only has its own record dropped: one error is appended, no record is,
\* the records collected so far are kept and the loop goes on
C17_MalformedSaltDropsOneRecord ==
    [][(/\ Stepping
        /\ HoldsTable(Current)
        /\ IsA(Get(TableOf(Current), "user_name"), "String")
        /\ MalformedSalts(TableOf(Current)) # {})
       => /\ pc' = "loop"
          /\ collaborators' = collaborators
          /\ Len(errors') = Len(errors) + 1
          /\ SubSeq(errors', 1, Len(errors)) = errors]_vars

\* the integer field of t under key is absent, not an Integer, or negative
BadInteger(t, key) ==
    \/ ~IsA(Get(t, key), "Integer")
    \/ Negative(t[key].i)

\* the extraction of t gets as far as the integer fields
ReachesIntegers(t) ==
    /\ IsA(Get(t, "user_name"), "String")
    /\ IsA(Get(t, "user_salt_list"), "Array") /\ MalformedSalts(t) = {}
    /\ IsA(Get(t, "gpg_key_public"), "String")

\* C18: in the batch decoder of deserialization_from_toml_file_main.rs a
\* source whose sync_interval or
\* updated_at_timestamp is absent, not an Integer or negative (its earlier
\* required fields being fine) only has its own record dropped into the
\* errors sequence: the loop goes on to the later sources with the records
\* of the earlier ones kept, and the call returns Ok
C18_BadIntegerDropsOneRecord ==
    [][(/\ Stepping
        /\ program = "deserialization_from_toml_file_main"
        /\ HoldsTable(Current)
        /\ ReachesIntegers(TableOf(Current))
        /\ \E key \in IntegerKeys : BadInteger(TableOf(Current), key))
       => /\ pc' = "loop"
          /\ collaborators' = collaborators
          /\ Len(errors') > Len(errors)
          /\ SubSeq(errors', 1, Len(errors)) = errors]_vars


\* the elements of the address array of t under key that are not strings or
\* do not parse as an address of the key's family
BadAddresses(t, key) ==
    {k \in 1..Len(AddrArray(t, key)) : ~Parseable(AddrArray(t, key)[k], key)}

\* how many soft errors the two address arrays of t give rise to
SoftErrorCount(t) ==
    Cardinality(BadAddresses(t, "ipv4_addresses"))
    + Cardinality(BadAddresses(t, "ipv6_addresses"))

\* the content of source e is not TOML or its root is not a table
NoTable(e) == ~toml_from_str(e.f).ok \/ toml_from_str(e.f).val.type # "Table"

\* this step keeps the records, appends n errors and stays in the loop
DropsRecord(n) ==
    /\ pc' = "loop"
    /\ collaborators' = collaborators
    /\ Len(errors') = Len(errors) + n
    /\ SubSeq(errors', 1, Len(errors)) = errors

\* C19 as stated, of the batch decoder of
\* deserialization_from_toml_file_main.rs: a source that fails table parsing, whose root is not a
\* table, or that lacks a String user_name, an Array user_salt_list or a
\* String gpg_key_public appends exactly one error and no record, keeps the
\* records collected, and the loop goes on
C19_AsStated ==
    [][(/\ Stepping
        /\ program = "deserialization_from_toml_file_main"
        /\ ReadableSource(Current)
        /\ \/ NoTable(Current)
           \/ ~IsA(Get(TableOf(Current), "user_name"), "String")
           \/ ~IsA(Get(TableOf(Current), "user_salt_list"), "Array")
           \/ ~IsA(Get(TableOf(Current), "gpg_key_public"), "String"))
       => DropsRecord(1)]_vars

\* C19: in the batch decoder of deserialization_from_toml_file_main.rs a
\* source that fails table parsing, whose root is not a table, or
\* that lacks a String user_name or an Array user_salt_list appends exactly
\* one error and no record, keeps the records collected, and the loop goes
\* on; so does a source whose user_name and salts are extracted and that
\* lacks a String gpg_key_public, the one error "Missing or invalid
\* gpg_key_public" then coming after one soft error for each unparseable
\* element of its address arrays
C19_MalformedSourceIsCollected ==
    [][(/\ Stepping
        /\ program = "deserialization_from_toml_file_main"
        /\ ReadableSource(Current)) =>
          /\ (NoTable(Current)
              \/ ~IsA(Get(TableOf(Current), "user_name"), "String")
              \/ ~IsA(Get(TableOf(Current), "user_salt_list"), "Array"))
             => DropsRecord(1)
          /\ (/\ ~NoTable(Current)
              /\ IsA(Get(TableOf(Current), "user_name"), "String")
              /\ IsA(Get(TableOf(Current), "user_salt_list"), "Array")
              /\ MalformedSalts(TableOf(Current)) = {}
              /\ ~IsA(Get(TableOf(Current), "gpg_key_public"), "String"))
             => /\ DropsRecord(SoftErrorCount(TableOf(Current)) + 1)
                /\ errors'[Len(errors')] =
                       TomlError(<<"Missing or invalid gpg_key_public">>)]_vars

\* after a valid source, a source with an unparseable address and no
\* gpg_key_public has left two errors and no record, and the loop goes on
C19_Witness ==
    /\ pc = "loop"
    /\ program = "deserialization_from_toml_file_main"
    /\ idx = 2
    /\ HoldsTable(sources[1]) /\ TableOf(sources[1]) = ValidTable
    /\ HoldsTable(sources[2])
    /\ "gpg_key_public" \notin DOMAIN TableOf(sources[2])
    /\ SoftErrorCount(TableOf(sources[2])) = 1
    /\ Len(collaborators) = 1
    /\ Len(errors) = 2


\* the record the batch decoder builds from t when no required field fails
\* and the address fields are opt4 and opt6
RecordWith(t, opt4, opt6) ==
    CollaboratorTomlData(t["user_name"].s, collect_salts_batch(SaltArray(t), <<>>).val,
                         opt4, opt6, t["gpg_key_public"].s,
                         as_u64(t["sync_interval"].i), as_u64(t["updated_at_timestamp"].i))

\* the optional list made of the parseable elements of the array under key
KeptAddresses(t, key) ==
    IF ParsedOnes(AddrArray(t, key), key) = <<>> THEN None
    ELSE Some(ParsedOnes(AddrArray(t, key), key))

\* error e is the soft error of an element of the array under key
IsSoftErrorOf(e, key) ==
    /\ e.variant = "TomlError"
    /\ e.msg[1] = "Invalid " /\ e.msg[2] = key
    /\ e.msg[Len(e.msg)] \in {". Skipping this address.",
                              " format: Expected string. Skipping this address."}

\* the two address extractors of the running program return Ok on table t
ExtractorsReturnOk(t) ==
    IF program = "deserialization_main"
    THEN /\ extract_ipv4_addresses_main(t, "ipv4_addresses").ok
         /\ extract_ipv6_addresses_main(t, "ipv6_addresses").ok
    ELSE /\ extract_ipv4_addresses_sink(t, "ipv4_addresses", errors).res.ok
         /\ extract_ipv6_addresses_sink(t, "ipv6_addresses", errors).res.ok

\* the addresses of an optional list
Listed(opt) == IF opt.some THEN opt.v ELSE <<>>

\* C20: in the batch decoders whose address extractors take an error sink
\* (deserialization_from_toml_file_main.rs and deserialization_main.rs),
\* once a source's user_name and salts are extracted, each element of an
\* address array that is not a String or does not parse adds exactly one
\* soft error to the errors vector, the ipv4 ones before the ipv6 ones;
\* neither extractor returns Err; and when the other fields are fine the
\* record is appended, its address lists holding the parseable elements in
\* their original order
C20_AddressElementsAreSkipped ==
    [][(/\ Stepping
        /\ program \in {"deserialization_from_toml_file_main", "deserialization_main"}
        /\ HoldsTable(Current)
        /\ IsA(Get(TableOf(Current), "user_name"), "String")
        /\ IsA(Get(TableOf(Current), "user_salt_list"), "Array")
        /\ MalformedSalts(TableOf(Current)) = {})
       => LET t == TableOf(Current)
              n4 == Cardinality(BadAddresses(TableOf(Current), "ipv4_addresses"))
              n6 == Cardinality(BadAddresses(TableOf(Current), "ipv6_addresses"))
          IN  /\ ExtractorsReturnOk(t)
              /\ Len(errors') >= Len(errors) + n4 + n6
              /\ SubSeq(errors', 1, Len(errors)) = errors
              /\ \A k \in 1..n4 : IsSoftErrorOf(errors'[Len(errors) + k], "ipv4_addresses")
              /\ \A k \in 1..n6 :
                     IsSoftErrorOf(errors'[Len(errors) + n4 + k], "ipv6_addresses")
              /\ (/\ IsA(Get(t, "gpg_key_public"), "String")
                  /\ \A key \in IntegerKeys : ~BadInteger(t, key))
                 => /\ pc' = "loop"
                    /\ Len(errors') = Len(errors) + n4 + n6
                    /\ Len(collaborators') = Len(collaborators) + 1
                    /\ IsPrefix(collaborators, collaborators')
                    /\ \A key \in AddressKeys :
                           Listed(collaborators'[Len(collaborators')][key])
                               = ParsedOnes(AddrArray(t, key), key)]_vars


-----------------------------------------------------------------------------
(* Properties of the field extractors, checked under Spec on the table the *)
(* single-record reader was given                                           *)

\* the key is in table t with a node that is not an Array
PresentNotArray(t, key) == Get(t, key).some /\ ~IsA(Get(t, key), "Array")

\* C21: in single-record decoding an address key that is present with a node
\* that is not an Array makes the extractor fail and the record be rejected;
\* an absent key gives "no value" without error
C21_NonArrayAddressKeyIsRejected ==
    DecodedATable =>
        \A key \in AddressKeys :
            /\ (PresentNotArray(TheTable, key) /\ OtherwiseValid(TheTable, key)) =>
                   ~result.ok
            /\ (~Get(TheTable, key).some /\ OtherwiseValid(TheTable, key)) =>
                   result.ok /\ result.val[key] = None


\* which of the failing input classes of the range-checked integer extractor
\* the node under key in t belongs to ("none": an Integer in range)
U64Class(t, key) ==
    IF ~Get(t, key).some THEN "MissingField"
    ELSE IF ~IsA(Get(t, key), "Integer") THEN "WrongFieldType"
    ELSE IF Negative(t[key].i) THEN "IntegerOutOfRange"
    ELSE "none"

\* tables with at most the key, one for every node an integer field is given
U64Probes(key) == {[k \in {key} |-> n.v] : n \in Nodes.int \ {None}} \cup {<<>>}

\* C22 as stated: an absent key, a node that is not an Integer and a negative
\* Integer each make extract_u64 fail, and inputs of two different classes
\* never get the same error (in the single-record and in the sink-taking
\* variant)
C22_AsStated ==
    DecodedATable =>
        \A key \in IntegerKeys : \A p \in U64Probes(key) :
            (/\ U64Class(TheTable, key) # "none"
             /\ U64Class(p, key) # "none"
             /\ U64Class(TheTable, key) # U64Class(p, key)) =>
                /\ ~extract_u64(TheTable, key).ok /\ ~extract_u64(p, key).ok
                /\ extract_u64(TheTable, key).err # extract_u64(p, key).err
                /\ extract_u64_sink(TheTable, key, <<>>).res.err
                       # extract_u64_sink(p, key, <<>>).res.err

\* C22: extract_u64 reports two distinguishable errors: "Missing or invalid
\* <key>" when the key is absent and also when its node is not an Integer,
\* "Invalid <key>: Out of range for u64" when the Integer is negative; an
\* Integer in range is accepted; the single-record decoder returns that
\* error when every other field is valid, and the sink-taking variant
\* reports the same messages
C22_TwoErrorKinds ==
    DecodedATable =>
        \A key \in IntegerKeys :
            /\ U64Class(TheTable, key) \in {"MissingField", "WrongFieldType"} =>
                   /\ extract_u64(TheTable, key)
                          = Err(TomlStrError(<<"Missing or invalid ", key>>))
                   /\ extract_u64_sink(TheTable, key, <<>>).res
                          = Err(TomlError(<<"Missing or invalid ", key>>))
            /\ U64Class(TheTable, key) = "IntegerOutOfRange" =>
                   /\ extract_u64(TheTable, key)
                          = Err(TomlStrError(<<"Invalid ", key, ": Out of range for u64">>))
                   /\ extract_u64_sink(TheTable, key, <<>>).res
                          = Err(TomlError(<<"Invalid ", key, ": Out of range for u64">>))
                   /\ \A p \in U64Probes(key) :
                          U64Class(p, key) # "IntegerOutOfRange" =>
                              extract_u64(p, key) # extract_u64(TheTable, key)
            /\ U64Class(TheTable, key) = "none" =>
                   /\ extract_u64(TheTable, key).ok
                   /\ extract_u64_sink(TheTable, key, <<>>).res.ok
            /\ (U64Class(TheTable, key) # "none" /\ OtherwiseValid(TheTable, key)) =>
                   result = extract_u64(TheTable, key)

C22_Witness ==
    /\ DecodedATable
    /\ U64Class(TheTable, "sync_interval") = "WrongFieldType"
    /\ OtherwiseValid(TheTable, "sync_interval")
    /\ result = Err(TomlStrError(<<"Missing or invalid ", "sync_interval">>))


\* what is left of salt text s after every leading "0x" and one "+" sign
StrippedDigits(s) == AfterSign(trim_start_matches_0x(s))

\* s is hex digits, at least one, after the prefix
AllHex(s) ==
    /\ StrippedDigits(s) # <<>>
    /\ \A k \in 1..Len(StrippedDigits(s)) : IsHexDigit(StrippedDigits(s)[k])

\* the position of the first digit of d that is not "0" (Len(d) + 1: none)
SignificantFrom(d) ==
    IF \A k \in 1..Len(d) : HexValue(d[k]) = 0 THEN Len(d) + 1
    ELSE Least({k \in 1..Len(d) : HexValue(d[k]) # 0})

\* the number the hex digits of s write, as its significant digit values
SaltNumber(s) ==
    [k \in 1..(Len(StrippedDigits(s)) - SignificantFrom(StrippedDigits(s)) + 1) |->
        HexValue(StrippedDigits(s)[SignificantFrom(StrippedDigits(s)) + k - 1])]

\* array element e is a String writing a number of at most 128 bits
WellFormedSalt(e) ==
    e.type = "String" /\ AllHex(e.s) /\ Len(SaltNumber(e.s)) <= HexDigitsOfU128

\* array element e is a String writing a number above 2^128 - 1
OverflowingSalt(e) ==
    e.type = "String" /\ AllHex(e.s) /\ Len(SaltNumber(e.s)) > HexDigitsOfU128

\* array element e is a String with nothing after the prefix
DigitlessSalt(e) == e.type = "String" /\ trim_start_matches_0x(e.s) = <<>>

\* the elements of arr the claim names as decode errors
UndecodableSalts(arr) ==
    {k \in 1..Len(arr) :
        arr[k].type # "String" \/ OverflowingSalt(arr[k]) \/ DigitlessSalt(arr[k])}

\* C23: the salt extractor maps an Array of Strings element by element: the
\* leading "0x" is stripped and the rest read as a base-16 number of 128
\* bits, in order; a string writing a number above 2^128 - 1, a string with
\* nothing after the prefix and an element that is not a String are each an
\* error for the whole list (the value does not wrap, the element is not
\* skipped) and no record is returned; so it is in the batch extractor
C23_SaltListElementWise ==
    DecodedATable /\ IsA(Get(TheTable, "user_salt_list"), "Array") =>
        /\ (\A k \in 1..Len(SaltArray(TheTable)) : WellFormedSalt(SaltArray(TheTable)[k])) =>
               /\ user_salt_list_field(TheTable)
                      = Ok([k \in 1..Len(SaltArray(TheTable)) |->
                               SaltNumber(SaltArray(TheTable)[k].s)])
               /\ collect_salts_batch(SaltArray(TheTable), <<>>)
                      = user_salt_list_field(TheTable)
               /\ OtherwiseValid(TheTable, "user_salt_list") =>
                      /\ result.ok
                      /\ result.val.user_salt_list = user_salt_list_field(TheTable).val
        /\ UndecodableSalts(SaltArray(TheTable)) # {} =>
               /\ ~user_salt_list_field(TheTable).ok
               /\ ~collect_salts_batch(SaltArray(TheTable), <<>>).ok
               /\ ~result.ok /\ "val" \notin DOMAIN result
        /\ (/\ UndecodableSalts(SaltArray(TheTable)) # {}
            /\ \A j \in 1..(Least(UndecodableSalts(SaltArray(TheTable))) - 1) :
                   WellFormedSalt(SaltArray(TheTable)[j])) =>
               user_salt_list_field(TheTable)
                   = IF OverflowingSalt(SaltArray(TheTable)[Least(UndecodableSalts(SaltArray(TheTable)))])
                     THEN Err(ParseIntError("PosOverflow"))
                     ELSE IF DigitlessSalt(SaltArray(TheTable)[Least(UndecodableSalts(SaltArray(TheTable)))])
                     THEN Err(ParseIntError("Empty"))
                     ELSE Err(TomlStrError(<<"Invalid salt format: Expected string">>))

\* u128::MAX followed by the text of 2^128 in an otherwise valid table: the
\* decode fails with the overflow error of the second element
C23_Witness ==
    /\ DecodedATable
    /\ Len(SaltArray(TheTable)) = 2
    /\ WellFormedSalt(SaltArray(TheTable)[1])
    /\ Len(SaltNumber(SaltArray(TheTable)[1].s)) = HexDigitsOfU128
    /\ OverflowingSalt(SaltArray(TheTable)[2])
    /\ result = Err(ParseIntError("PosOverflow"))


\* C24: the batch decoder appends a record for a table exactly when the
\* single-record decoder succeeds on the same table, and that record is the
\* single-record result field for field, whatever was collected from the
\* sources before it
C24_BatchAgreesWithSingle ==
    DecodedATable =>
        \A cs \in {<<>>, <<MainRecord>>} :
            /\ (batch_fields(TheTable, cs, <<>>).collaborators # cs) <=> result.ok
            /\ result.ok =>
                   batch_fields(TheTable, cs, <<>>).collaborators = Append(cs, result.val)

-----------------------------------------------------------------------------
(* Properties of the batch decoder's accumulators, checked under BatchSpec *)

\* the errors extract_u64 constructs
U64Errors ==
    {TomlError(<<"Missing or invalid ", key>>) : key \in IntegerKeys}
    \cup {TomlError(<<"Invalid ", key, ": Out of range for u64">>) : key \in IntegerKeys}

\* C25: called on the table of the next source with the errors collected so
\* far, the sink-taking extract_u64 leaves the errors vector as it is when it
\* returns Ok, and when it returns Err it has appended exactly one entry,
\* with the message of the returned error, after the entries that were
\* there; when the loop is left with one of its errors, that error is the
\* last entry of the errors vector
C25_ExtractU64PushesWhatItReturns ==
    /\ (pc = "loop" /\ idx < Len(sources) /\ HoldsTable(Current)) =>
           \A key \in IntegerKeys :
               /\ extract_u64_sink(TableOf(Current), key, errors).res.ok =>
                      extract_u64_sink(TableOf(Current), key, errors).errors = errors
               /\ ~extract_u64_sink(TableOf(Current), key, errors).res.ok =>
                      /\ Len(extract_u64_sink(TableOf(Current), key, errors).errors)
                             = Len(errors) + 1
                      /\ SubSeq(extract_u64_sink(TableOf(Current), key, errors).errors,
                                1, Len(errors)) = errors
                      /\ extract_u64_sink(TableOf(Current), key, errors).errors[Len(errors) + 1]
                             = extract_u64_sink(TableOf(Current), key, errors).res.err
    /\ (pc = "done" /\ ~result.ok /\ result.err \in U64Errors) =>
           errors # <<>> /\ errors[Len(errors)] = result.err

\* a source with a negative sync_interval met after errors were collected:
\* the returned error is the entry after them
C25_Witness ==
    /\ pc = "done"
    /\ result = Err(TomlError(<<"Invalid ", "sync_interval", ": Out of range for u64">>))
    /\ Len(errors) >= 2
    /\ errors[Len(errors)] = result.err
    /\ errors[1] \notin U64Errors


-----------------------------------------------------------------------------
(* Properties of the optional address lists, checked under Spec on the     *)
(* table the single-record reader was given                                 *)

\* table t without the key
WithoutKey(t, key) == [k \in DOMAIN t \ {key} |-> t[k]]

\* the records the loop body of deserialization_main.rs appends for table t
MainBatchRecords(t) == batch_fields_main(t, <<>>, <<>>).collaborators

\* C26: in every record a decoder produces (the single-record decoder, the
\* batch decoder, the batch decoder of deserialization_main.rs) an optional
\* address field is "no value" or a non-empty list, never a present but
\* empty list; a table with an empty address array gives what the same
\* table without the key gives
C26_NoPresentButEmptyList ==
    DecodedATable =>
        \A key \in AddressKeys :
            /\ result.ok => result.val[key] # Some(<<>>)
            /\ \A k \in 1..Len(BatchRecords(TheTable)) :
                   BatchRecords(TheTable)[k][key] # Some(<<>>)
            /\ \A k \in 1..Len(MainBatchRecords(TheTable)) :
                   MainBatchRecords(TheTable)[k][key] # Some(<<>>)
            /\ (IsA(Get(TheTable, key), "Array") /\ TheTable[key].arr = <<>>) =>
                   /\ read_one_fields(toml_value.v).res
                          = read_one_fields([toml_value.v EXCEPT
                                                !.table = WithoutKey(TheTable, key)]).res
                   /\ BatchRecords(TheTable) = BatchRecords(WithoutKey(TheTable, key))
                   /\ MainBatchRecords(TheTable)
                          = MainBatchRecords(WithoutKey(TheTable, key))


-----------------------------------------------------------------------------
(* Properties of the encoder and the reader together, checked under        *)
(* RoundTripSpec                                                            *)

\* C27: the encoder does not normalise an address list that is present but
\* empty: it writes the key with an array block without entries; the record
\* read back from that output has "no value" in the field, and is read back
\* whenever the record is valid and its two texts are plain
C27_EmptyListIsWrittenAndReadAsNone ==
    \A key \in AddressKeys :
        /\ (Encoded /\ record[key] = Some(<<>>)) =>
               EmitsKey(toml_string, key) /\ RendersEmptyArray(toml_string, key)
        /\ (ReadBackDone /\ record[key] = Some(<<>>)) =>
               /\ result.ok => result.val[key] = None
               /\ (/\ ValidRecord(record)
                   /\ PlainText(record.user_name)
                   /\ PlainText(record.gpg_key_public)) => result.ok

\* a record with an empty ipv4 list and a non-empty ipv6 list was written
\* and read back
C27_Witness ==
    /\ ReadBackDone
    /\ record.ipv4_addresses = Some(<<>>)
    /\ record.ipv6_addresses.some /\ record.ipv6_addresses.v # <<>>
    /\ RendersEmptyArray(toml_string, "ipv4_addresses")
    /\ result.ok
    /\ result.val.ipv4_addresses = None
    /\ result.val.ipv6_addresses = record.ipv6_addresses


-----------------------------------------------------------------------------
(* Properties of the batch decoder's results sequence, checked under       *)
(* BatchSpec                                                                *)

\* entry e is a source every field of which the running program asks for is
\* extracted: in u128_array_only.rs the name and the salts; in
\* deserialization_main.rs an address that does not parse fails its field
YieldsRecord(e) ==
    /\ HoldsTable(e)
    /\ IsA(Get(TableOf(e), "user_name"), "String")
    /\ IsA(Get(TableOf(e), "user_salt_list"), "Array")
    /\ MalformedSalts(TableOf(e)) = {}
    /\ program # "u128_array_only" =>
           /\ IsA(Get(TableOf(e), "gpg_key_public"), "String")
           /\ \A key \in IntegerKeys : ~BadInteger(TableOf(e), key)
    /\ program = "deserialization_main" =>
           \A key \in AddressKeys : BadAddresses(TableOf(e), key) = {}

\* the record of such a source
RecordOf(e) ==
    CASE program = "u128_array_only" ->
             [user_name |-> TableOf(e)["user_name"].s,
              user_salt_list |-> collect_salts_batch(SaltArray(TableOf(e)), <<>>).val]
      [] program = "deserialization_main" ->
             RecordWith(TableOf(e),
                        IF IsA(Get(TableOf(e), "ipv4_addresses"), "Array")
                        THEN Some(ParsedOnes(AddrArray(TableOf(e), "ipv4_addresses"),
                                             "ipv4_addresses"))
                        ELSE None,
                        IF IsA(Get(TableOf(e), "ipv6_addresses"), "Array")
                        THEN Some(ParsedOnes(AddrArray(TableOf(e), "ipv6_addresses"),
                                             "ipv6_addresses"))
                        ELSE None)
      [] OTHER ->
             RecordWith(TableOf(e), KeptAddresses(TableOf(e), "ipv4_addresses"),
                        KeptAddresses(TableOf(e), "ipv6_addresses"))

\* the positions, among the first k sources, of those that yield a record
Yielding(k) == {j \in 1..k : YieldsRecord(sources[j])}

\* the n-th smallest element of S
NthOf(S, n) == CHOOSE j \in S : Cardinality({i \in S : i <= j}) = n

\* the results are the records of the processed sources, one for each source
\* that yields one, in the order of the traversal
InTraversalOrder ==
    /\ Len(collaborators) <= idx
    /\ Len(collaborators) = Cardinality(Yielding(idx))
    /\ \A n \in 1..Len(collaborators) :
           collaborators[n] = RecordOf(sources[NthOf(Yielding(idx), n)])

\* C28: the results sequence of the batch decoder only grows, by appending:
\* a step keeps the records there are and adds at most one; there are never
\* more records than sources processed; and the records are those of the
\* sources that yield one, in the order the sources were traversed
C28_ResultsOnlyGrowInOrder ==
    /\ []InTraversalOrder
    /\ [][/\ IsPrefix(collaborators, collaborators')
          /\ Len(collaborators') <= Len(collaborators) + 1]_vars

\* three sources were traversed, the second gave no record: the results are
\* the records of the first and the third, which differ, in that order
C28_Witness ==
    /\ pc = "done" /\ result.ok
    /\ idx = 3
    /\ Yielding(3) = {1, 3}
    /\ collaborators = <<RecordOf(sources[1]), RecordOf(sources[3])>>
    /\ RecordOf(sources[1]) # RecordOf(sources[3])


====
